---- MODULE Spec2Model ----
(***************************************************************************)
(* Control-flow runtime of the bakufu workflow engine:                     *)
(*   - WorkflowExecutionEngine.execute_workflow (the sequential driver),   *)
(*   - CollectionProcessor._process_map / _process_map_parallel,           *)
(*   - _CompletionProcessor (continuation and transport-retry loops),      *)
(*   - WorkflowExecutionEngine._execute_ai_call_with_validation,           *)
(*   - WorkflowExecutionEngine._execute_conditional_step,                  *)
(*   - CollectionProcessor._process_filter, _process_reduce and the        *)
(*     pipeline branch of _dispatch_operation.                             *)
(* Each component has its own specification over the shared variables; the *)
(* variables of the other components stay at their idle values.            *)
(***************************************************************************)
EXTENDS Integers, Sequences, FiniteSets, TLC

\* ------------------------------------------------------------------ bounds
MaxSteps == 3
MaxItems == 3
MaxParallel == 3
MaxAutoRetry == 2
MaxRetries == 1
MaxValRetries == 2
MaxBranches == 2
MaxNested == 3
MaxStages == 2
MaxLoadSteps == 2
MaxUsageCalls == 3

\* --------------------------------------------------------------- constants
\* Python's None, as a step output.
Null == 0
\* Values a step can return on success.
StepValues == {1, 2}
\* on_error: Literal["stop", "continue", "skip_remaining"]
OnErrorValues == {"stop", "continue", "skip_remaining"}
WorkflowName == "wf"
NoName == "none"
\* Id carried by a StepExecutionError raised below the top-level step.
NestedId == MaxSteps + 10
NoError == [cls |-> "none", step_id |-> 0, workflow_name |-> NoName, original |-> "none"]

VARIABLES
    \* execute_workflow
    wf_steps,        \* workflow.steps: the on_error of each step; step i has id i
    has_callback,    \* self.progress_callback is set
    drv_pc,          \* position in execute_workflow
    drv_i,           \* loop index i of enumerate(workflow.steps, 1)
    results,         \* the local dict results
    step_outputs,    \* context.step_outputs
    drv_error,       \* the exception execute_workflow raised, NoError if none
    drv_started,     \* step indices handed to execute_step, in call order
    drv_failed,      \* step indices whose execute_step raised
    drv_exc,         \* the exception e the last failing execute_step raised
    events,          \* calls made to progress_callback, in order
    \* CollectionProcessor._process_map
    input_list,      \* the evaluated input: per position the item and whether
                     \* its nested steps succeed
    concurrency,     \* step.concurrency: <<>> for None, <<n>> for {"max_parallel": n}
    on_item_failure, \* step.error_handling.on_item_failure
    map_pc,          \* position in _process_map
    map_i,           \* loop index of the sequential for loop (1-based)
    map_results,     \* the list results
    semaphore,       \* free slots of asyncio.Semaphore(max_parallel)
    task_state,      \* per item task: created, running, done or failed
    map_started,     \* positions handed to _process_map_item, in call order
    map_error,       \* class of the exception process() raised, "none" if none
    ctx_heap,        \* the ExecutionContext objects: per reference the
                     \* step_outputs and input_data of the object
    item_ctx,        \* per position: the reference item_context and the
                     \* step_outputs the item found in it
    \* _CompletionProcessor.process_completion on one _CompletionContext
    max_auto_retry_attempts, \* context.max_auto_retry_attempts
    max_retries,             \* context.max_retries
    ai_pc,                   \* position in process_completion
    continuation_attempt,    \* loop variable of process_completion
    attempt,                 \* loop variable of _execute_completion_with_retries
    messages,                \* context.params["messages"]
    accumulated_content,     \* context.accumulated_content
    accumulated_usage,       \* context.accumulated_usage
    accumulated_cost,        \* context.accumulated_cost
    total_api_calls,         \* context.total_api_calls
    ai_step_pc,              \* position in _execute_ai_call_step around complete()
    usage_summary_calls,     \* total_api_calls of the execution context's UsageSummary
    ai_response,             \* the AIResponse returned, NoResponse if none
    ai_rounds,               \* the responses litellm.completion returned, in order
    ai_calls,                \* number of litellm.completion invocations
    ai_sleeps,               \* the asyncio.sleep delays of the current round
    last_error,              \* last_error of _execute_completion_with_retries
    round_errors,            \* the exceptions litellm.completion raised in this round
    round_calls,             \* litellm.completion invocations of the current round
    ai_error,                \* the exception process_completion raised, NoAIError if none
    \* WorkflowExecutionEngine._execute_ai_call_with_validation
    validation_max_retries,  \* validation_config.max_retries
    force_json_output,       \* validation_config.force_json_output
    val_pc,                  \* position in _execute_ai_call_with_validation
    val_attempt,             \* loop variable attempt of the validation loop
    current_prompt,          \* the local current_prompt, a sequence of parts
    prompts_sent,            \* the prompts handed to ai_provider.complete, in order
    val_results,             \* the ValidationResult of each validator.validate call
    results_before,          \* per prompt sent, the number of validate calls before it
    val_return,              \* the value returned, NoOutput if none
    val_error,               \* the exception raised, NoValError if none
    \* WorkflowExecutionEngine._execute_conditional_step
    cond_form,               \* "basic" (step.condition set) or "multi" (step.conditions set)
    condition,               \* what rendering step.condition yields
    if_true,                 \* step.if_true: the outcomes of its nested steps
    if_false,                \* step.if_false, <<>> also for None
    conditions,              \* step.conditions: per branch condition, steps, default
    on_condition_error,      \* step.on_condition_error
    cond_on_error,           \* step.on_error
    cond_pc,                 \* position in the conditional's execution
    cond_k,                  \* index of the branch the for loop is at (1-based)
    condition_result,        \* the local condition_result
    evaluation_error,        \* the local evaluation_error
    executed_branch,         \* the local executed_branch
    cond_output,             \* the local output
    cond_result,             \* the ConditionalResult returned, NoCondResult if none
    cond_error,              \* the exception raised, NoCondError if none
    considered,              \* branch indices the for loop visited, in order
    evaluated,               \* branch indices whose condition was rendered, in order
    executed,                \* names of the branches handed to _execute_step_list
    cond_step_outputs,       \* context.step_outputs of the context the step runs in
    \* CollectionProcessor._process_filter
    filter_input,            \* input_list: per position the item and what rendering
                             \* the condition with that item yields
    filter_on_condition_error, \* step.error_handling.on_condition_error
    filter_pc,               \* position in _process_filter
    filter_i,                \* index of the item the for loop is at (1-based)
    filter_results,          \* the list results
    filter_error,            \* class of the exception raised, "none" if none
    \* CollectionProcessor._process_reduce
    reduce_input,            \* input_list
    initial_value,           \* step.initial_value
    reduce_steps,            \* step.steps: per nested step its id and what it computes
    reduce_pc,               \* position in _process_reduce
    reduce_i,                \* index of the item the for loop is at (1-based)
    accumulator,             \* the local accumulator
    reduce_trace,            \* per finished iteration: the item, the accumulator it
                             \* saw and the output of its last nested step
    reduce_result,           \* the value returned, NoReduceResult if none
    reduce_error,            \* class of the exception raised, "none" if none
    reduce_heap,             \* the ExecutionContext objects of the reduce: the
                             \* context it is called with and reduce_context
    \* CollectionProcessor._dispatch_operation, operation "pipeline"
    pipeline,                \* step.pipeline: the inline operation specs
    pipe_input,              \* evaluated_input of the pipeline step
    current_input,           \* the local current_input
    pipe_pc,                 \* position in the pipeline loop
    pipe_idx,                \* idx of enumerate(pipeline_ops), 1-based
    stages_run,              \* per processor.process call: the stage and its input
    pipe_result,             \* the value returned, NoValue if none
    pipe_error,              \* class of the exception raised, "none" if none
    \* WorkflowLoader._parse_workflow_data
    steps_data,              \* data["steps"]: per step its id, type and nested step lists
    load_pc,                 \* position in _parse_workflow_data
    load_i,                  \* loop index i of _transform_steps, 1-based
    transformed_steps,       \* the list transformed_steps
    load_error,              \* class of the exception raised, "none" if none
    \* ConditionalStep(**step_data)
    cm_data,                 \* the keyword arguments: condition, if_true, conditions
    cm_pc,                   \* position in the construction of the ConditionalStep
    cm_error,                \* class of the exception raised, "none" if none
    \* execute_workflow under an observer
    obs_steps,               \* workflow.steps: the on_error of each step; step i has id i
    obs_outcomes,            \* what execute_step does for each step: returns or raises
    observer,                \* self.progress_callback: whether it is set and the events it raises on
    obs_pc,                  \* position in execute_workflow
    obs_i,                   \* loop index i of enumerate(workflow.steps, 1)
    obs_results,             \* the local dict results
    obs_outputs,             \* context.step_outputs
    obs_executed,            \* step indices handed to execute_step, in call order
    obs_error,               \* the exception execute_workflow raised, NoError if none
    obs_events,              \* the calls of progress_callback made, in order: the
                             \* event and total_steps or current_step (0 if none)
    \* UsageSummary of an ExecutionContext
    usage_summary,           \* the UsageSummary: its totals and step_usage
    usage_pc                 \* "open" while the context is in use

drv_vars == <<wf_steps, has_callback, drv_pc, drv_i, results, step_outputs,
              drv_error, drv_started, drv_failed, drv_exc, events>>

map_vars == <<input_list, concurrency, on_item_failure, map_pc, map_i,
              map_results, semaphore, task_state, map_started, map_error,
              ctx_heap, item_ctx>>

ai_vars == <<max_auto_retry_attempts, max_retries, ai_pc, continuation_attempt,
             attempt, messages, accumulated_content, accumulated_usage,
             accumulated_cost, total_api_calls, ai_response, ai_rounds,
             ai_calls, ai_sleeps, last_error, round_errors, round_calls, ai_error,
             ai_step_pc, usage_summary_calls>>

val_vars == <<validation_max_retries, force_json_output, val_pc, val_attempt,
              current_prompt, prompts_sent, results_before, val_results, val_return,
              val_error>>

cond_vars == <<cond_form, condition, if_true, if_false, conditions,
               on_condition_error, cond_on_error, cond_pc, cond_k,
               condition_result, evaluation_error, executed_branch, cond_output,
               cond_result, cond_error, considered, evaluated, executed,
               cond_step_outputs>>

filter_vars == <<filter_input, filter_on_condition_error, filter_pc, filter_i,
                 filter_results, filter_error>>

reduce_vars == <<reduce_input, initial_value, reduce_steps, reduce_pc, reduce_i,
                 accumulator, reduce_trace, reduce_result, reduce_error,
                 reduce_heap>>

pipe_vars == <<pipeline, pipe_input, current_input, pipe_pc, pipe_idx,
               stages_run, pipe_result, pipe_error>>

load_vars == <<steps_data, load_pc, load_i, transformed_steps,
               load_error>>

cm_vars == <<cm_data, cm_pc, cm_error>>

obs_vars == <<obs_steps, obs_outcomes, observer, obs_pc, obs_i,
              obs_results, obs_outputs, obs_executed, obs_error, obs_events>>

usage_vars == <<usage_summary, usage_pc>>

vars == <<wf_steps, has_callback, drv_pc, drv_i, results, step_outputs,
          drv_error, drv_started, drv_failed, drv_exc, events,
          input_list, concurrency, on_item_failure, map_pc, map_i,
          map_results, semaphore, task_state, map_started, map_error,
          ctx_heap, item_ctx,
          max_auto_retry_attempts, max_retries, ai_pc, continuation_attempt,
          attempt, messages, accumulated_content, accumulated_usage,
          accumulated_cost, total_api_calls, ai_response, ai_rounds,
          ai_calls, ai_sleeps, last_error, round_errors, round_calls, ai_error,
          ai_step_pc, usage_summary_calls,
          validation_max_retries, force_json_output, val_pc, val_attempt,
          current_prompt, prompts_sent, results_before, val_results, val_return,
              val_error,
          cond_form, condition, if_true, if_false, conditions,
          on_condition_error, cond_on_error, cond_pc, cond_k,
          condition_result, evaluation_error, executed_branch, cond_output,
          cond_result, cond_error, considered, evaluated, executed,
          cond_step_outputs,
          filter_input, filter_on_condition_error, filter_pc, filter_i,
          filter_results, filter_error,
          reduce_input, initial_value, reduce_steps, reduce_pc, reduce_i,
          accumulator, reduce_trace, reduce_result, reduce_error, reduce_heap,
          pipeline, pipe_input, current_input, pipe_pc, pipe_idx,
          stages_run, pipe_result, pipe_error,
          steps_data, load_pc, load_i, transformed_steps, load_error,
          cm_data, cm_pc, cm_error,
          obs_steps, obs_outcomes, observer, obs_pc, obs_i, obs_results, obs_outputs, obs_executed, obs_error, obs_events,
          usage_summary, usage_pc>>

\* what the actions of one component leave alone
drv_others == <<map_vars, ai_vars, val_vars, cond_vars, filter_vars,
                reduce_vars, pipe_vars,
                load_vars,
                cm_vars,
                obs_vars,
                usage_vars>>
map_others == <<drv_vars, ai_vars, val_vars, cond_vars, filter_vars,
                reduce_vars, pipe_vars,
                load_vars,
                cm_vars,
                obs_vars,
                usage_vars>>
ai_others == <<drv_vars, map_vars, val_vars, cond_vars, filter_vars,
               reduce_vars, pipe_vars,
               load_vars,
               cm_vars,
               obs_vars,
               usage_vars>>
val_others == <<drv_vars, map_vars, ai_vars, cond_vars, filter_vars,
                reduce_vars, pipe_vars,
                load_vars,
                cm_vars,
                obs_vars,
                usage_vars>>
cond_others == <<drv_vars, map_vars, ai_vars, val_vars, filter_vars,
                 reduce_vars, pipe_vars,
                 load_vars,
                 cm_vars,
                 obs_vars,
                 usage_vars>>
filter_others == <<drv_vars, map_vars, ai_vars, val_vars, cond_vars,
                   reduce_vars, pipe_vars,
                   load_vars,
                   cm_vars,
                   obs_vars,
                   usage_vars>>
reduce_others == <<drv_vars, map_vars, ai_vars, val_vars, cond_vars,
                   filter_vars, pipe_vars,
                   load_vars,
                   cm_vars,
                   obs_vars,
                   usage_vars>>
pipe_others == <<drv_vars, map_vars, ai_vars, val_vars, cond_vars, filter_vars,
                 reduce_vars,
                 load_vars,
                 cm_vars,
                 obs_vars,
                 usage_vars>>
load_others == <<drv_vars, map_vars, ai_vars, val_vars, cond_vars,
                  filter_vars, reduce_vars, pipe_vars,
                 cm_vars,
                 obs_vars,
                 usage_vars>>
cm_others == <<drv_vars, map_vars, ai_vars, val_vars, cond_vars,
                filter_vars, reduce_vars, pipe_vars, load_vars,
               obs_vars,
               usage_vars>>
obs_others == <<drv_vars, map_vars, ai_vars, val_vars, cond_vars,
                 filter_vars, reduce_vars, pipe_vars, load_vars, cm_vars,
                usage_vars>>
usage_others == <<drv_vars, map_vars, ai_vars, val_vars,
                   cond_vars, filter_vars, reduce_vars, pipe_vars, load_vars,
                   cm_vars, obs_vars>>

\* ---------------------------------------------------------------- helpers
EmptyDict == <<>>

\* ExecutionContext.set_step_output / dict item assignment
set_step_output(d, k, v) == [x \in (DOMAIN d) \cup {k} |-> IF x = k THEN v ELSE d[x]]

\* The exceptions execute_step can raise for the step with id sid.
StepExceptions(sid) ==
    [cls : {"StepExecutionError"}, step_id : {sid, NestedId},
     workflow_name : {WorkflowName, NoName}, original : {"none"}]
    \cup
    [cls : {"TemplateError", "ValueError"}, step_id : {0},
     workflow_name : {NoName}, original : {"none"}]

\* ClassifyError without the wrapping of foreign exceptions
ClassifyError_NoWrap(e, sid) == e

\* execute_workflow, lines 70-79: keep a StepExecutionError, wrap anything else
ClassifyError(e, sid) ==
    IF e.cls = "StepExecutionError"
    THEN e
    ELSE [cls |-> "StepExecutionError", step_id |-> sid,
          workflow_name |-> WorkflowName, original |-> e.cls]

\* HandleOnError where a continue failure executes the failed step again
HandleOnError_Retry(on_error) ==
    CASE on_error = "stop" ->
            [raises |-> TRUE, records_null |-> FALSE, next_pc |-> "raised"]
      [] on_error = "continue" ->
            [raises |-> FALSE, records_null |-> TRUE, next_pc |-> "exec"]
      [] on_error = "skip_remaining" ->
            [raises |-> FALSE, records_null |-> TRUE, next_pc |-> "complete"]

\* HandleOnError where skip_remaining goes on with the loop instead of breaking
HandleOnError_NoBreak(on_error) ==
    CASE on_error = "stop" ->
            [raises |-> TRUE, records_null |-> FALSE, next_pc |-> "raised"]
      [] on_error = "continue" ->
            [raises |-> FALSE, records_null |-> TRUE, next_pc |-> "loop"]
      [] on_error = "skip_remaining" ->
            [raises |-> FALSE, records_null |-> TRUE, next_pc |-> "loop"]

\* HandleOnError where continue goes on without recording the null output
HandleOnError_NoRecord(on_error) ==
    CASE on_error = "stop" ->
            [raises |-> TRUE, records_null |-> FALSE, next_pc |-> "raised"]
      [] on_error = "continue" ->
            [raises |-> FALSE, records_null |-> FALSE, next_pc |-> "loop"]
      [] on_error = "skip_remaining" ->
            [raises |-> FALSE, records_null |-> TRUE, next_pc |-> "complete"]

\* execute_workflow, lines 81-90: what the step's on_error does with the error
HandleOnError(on_error) ==
    CASE on_error = "stop" ->
            [raises |-> TRUE, records_null |-> FALSE, next_pc |-> "raised"]
      [] on_error = "continue" ->
            [raises |-> FALSE, records_null |-> TRUE, next_pc |-> "loop"]
      [] on_error = "skip_remaining" ->
            [raises |-> FALSE, records_null |-> TRUE, next_pc |-> "complete"]

\* progress_callback(...) when one is set
Notify(ev) == IF has_callback THEN Append(events, ev) ELSE events

\* ------------------------------------------------------- execute_workflow
DriverInit ==
    /\ wf_steps \in UNION {[1..n -> OnErrorValues] : n \in 1..MaxSteps}
    /\ has_callback \in BOOLEAN
    /\ drv_pc = "start"
    /\ drv_i = 1
    /\ results = EmptyDict
    /\ step_outputs = EmptyDict
    /\ drv_error = NoError
    /\ drv_started = <<>>
    /\ drv_failed = {}
    /\ drv_exc = NoError
    /\ events = <<>>

\* lines 45-51: results = {}; notify workflow_start
WorkflowStart ==
    /\ drv_pc = "start"
    /\ events' = Notify(<<"workflow_start", Len(wf_steps)>>)
    /\ drv_pc' = "loop"
    /\ UNCHANGED <<wf_steps, has_callback, drv_i, results, step_outputs,
                   drv_error, drv_started, drv_failed, drv_exc>>
    /\ UNCHANGED drv_others

\* lines 53-58: next iteration of the for loop, notify workflow_step
StepStart ==
    /\ drv_pc = "loop"
    /\ drv_i <= Len(wf_steps)
    /\ events' = Notify(<<"workflow_step", drv_i>>)
    /\ drv_pc' = "exec"
    /\ UNCHANGED <<wf_steps, has_callback, drv_i, results, step_outputs,
                   drv_error, drv_started, drv_failed, drv_exc>>
    /\ UNCHANGED drv_others

\* lines 60-63: execute_step returned result
StepSucceeds ==
    /\ drv_pc = "exec"
    /\ \E result \in StepValues \cup {Null} :
          /\ step_outputs' = set_step_output(step_outputs, drv_i, result)
          /\ results' = set_step_output(results, drv_i, result)
    /\ drv_started' = Append(drv_started, drv_i)
    /\ drv_i' = drv_i + 1
    /\ drv_pc' = "loop"
    /\ UNCHANGED <<wf_steps, has_callback, drv_error, drv_failed, drv_exc, events>>
    /\ UNCHANGED drv_others

\* lines 65-90: execute_step raised e
StepFails ==
    /\ drv_pc = "exec"
    /\ \E e \in StepExceptions(drv_i) :
        LET error == ClassifyError(e, drv_i)
            h == HandleOnError(wf_steps[drv_i])
        IN  /\ drv_started' = Append(drv_started, drv_i)
            /\ drv_failed' = drv_failed \cup {drv_i}
            /\ drv_exc' = e
            /\ drv_error' = IF h.raises THEN error ELSE drv_error
            /\ step_outputs' = IF h.records_null
                               THEN set_step_output(step_outputs, drv_i, Null)
                               ELSE step_outputs
            /\ results' = IF h.records_null
                          THEN set_step_output(results, drv_i, Null)
                          ELSE results
            /\ drv_pc' = h.next_pc
            /\ drv_i' = IF h.next_pc = "loop" THEN drv_i + 1 ELSE drv_i
    /\ UNCHANGED <<wf_steps, has_callback, events>>
    /\ UNCHANGED drv_others

\* the for loop is exhausted
LoopExit ==
    /\ drv_pc = "loop"
    /\ drv_i > Len(wf_steps)
    /\ drv_pc' = "complete"
    /\ UNCHANGED <<wf_steps, has_callback, drv_i, results, step_outputs,
                   drv_error, drv_started, drv_failed, drv_exc, events>>
    /\ UNCHANGED drv_others

\* lines 92-96: notify workflow_complete; return results
WorkflowComplete ==
    /\ drv_pc = "complete"
    /\ events' = Notify(<<"workflow_complete", 0>>)
    /\ drv_pc' = "returned"
    /\ UNCHANGED <<wf_steps, has_callback, drv_i, results, step_outputs,
                   drv_error, drv_started, drv_failed, drv_exc>>
    /\ UNCHANGED drv_others



DriverNext ==
    \/ WorkflowStart
    \/ StepStart
    \/ StepSucceeds
    \/ StepFails
    \/ LoopExit
    \/ WorkflowComplete

\* the driver's variables while another component runs
DriverIdle ==
    /\ wf_steps = <<>>
    /\ has_callback = FALSE
    /\ drv_pc = "idle"
    /\ drv_i = 1
    /\ results = EmptyDict
    /\ step_outputs = EmptyDict
    /\ drv_error = NoError
    /\ drv_started = <<>>
    /\ drv_failed = {}
    /\ drv_exc = NoError
    /\ events = <<>>

\* ------------------------------------------ CollectionProcessor._process_map
Items == {1, 2}
\* CollectionErrorHandling.on_item_failure
OnItemFailureValues == {"skip", "stop", "retry"}
InputEntries == [item : Items, ok : BOOLEAN]
ConcurrencySpecs == {<<>>} \cup {<<n>> : n \in 0..MaxParallel}

\* _process_map_item: the output of the last nested step, run on item
ItemResult(item) == item * 10

\* _process_map lines 130-135: the condition that selects parallel processing
UsesParallel(c) == c # <<>> /\ c[1] > 1

\* _process_map_parallel lines 156-158
max_parallel_of(c) == IF c # <<>> THEN c[1] ELSE 3

\* SeqItemStep where skip appends nothing for a failed item
SeqItemStep_SkipDrops(res, entry, policy) ==
    IF entry.ok
    THEN [results |-> Append(res, ItemResult(entry.item)), raised |-> FALSE]
    ELSE IF policy = "stop"
    THEN [results |-> res, raised |-> TRUE]
    ELSE [results |-> res, raised |-> FALSE]

\* SeqItemStep where stop swallows the failure like skip
SeqItemStep_StopSwallows(res, entry, policy) ==
    IF entry.ok
    THEN [results |-> Append(res, ItemResult(entry.item)), raised |-> FALSE]
    ELSE IF policy \in {"stop", "skip"}
    THEN [results |-> Append(res, Null), raised |-> FALSE]
    ELSE [results |-> res, raised |-> FALSE]

\* _process_map lines 140-148: the body of the sequential loop for one item
SeqItemStep(res, entry, policy) ==
    IF entry.ok
    THEN [results |-> Append(res, ItemResult(entry.item)), raised |-> FALSE]
    ELSE IF policy = "stop"
    THEN [results |-> res, raised |-> TRUE]
    ELSE IF policy = "skip"
    THEN [results |-> Append(res, Null), raised |-> FALSE]
    ELSE [results |-> res, raised |-> FALSE]

\* _process_map lines 139-150: the sequential loop from position k on
RECURSIVE SequentialLoop(_, _, _, _)
SequentialLoop(list, policy, k, res) ==
    IF k > Len(list)
    THEN [results |-> res, raised |-> FALSE]
    ELSE LET r == SeqItemStep(res, list[k], policy)
         IN  IF r.raised THEN r ELSE SequentialLoop(list, policy, k + 1, r.results)

\* StoreResult that writes one slot too far
StoreResult_OffByOne(res, index, v) == [res EXCEPT ![(index % Len(res)) + 1] = v]

\* _process_map_parallel lines 166, 171: results[index] = ...
StoreResult(res, index, v) == [res EXCEPT ![index] = v]

\* _process_map_parallel lines 164-171: what a finished item task does
ParItemStep(res, index, entry, policy) ==
    IF entry.ok
    THEN [results |-> StoreResult(res, index, ItemResult(entry.item)), raised |-> FALSE]
    ELSE IF policy = "stop"
    THEN [results |-> res, raised |-> TRUE]
    ELSE IF policy = "skip"
    THEN [results |-> StoreResult(res, index, Null), raised |-> FALSE]
    ELSE [results |-> res, raised |-> FALSE]

\* a semaphore that admits every task
SemaphoreFree_Always(value) == TRUE

\* asyncio.Semaphore: acquire goes through only while the value is positive
SemaphoreFree(value) == value > 0

\* UsageSummary.add_step_usage line 29: self.total_api_calls += 1
add_step_usage(calls) == calls + 1

\* the context the map is called with is object 0, the item_context of
\* position i is object i; the parent holds the output of an earlier step
\* whose id the map's nested step has too
ParentRef == 0
NoRef == -1
NestedStepId == "n"
\* usage is total_api_calls of the context's _usage_summary: one call was
\* recorded by an earlier step of the run
ParentContext ==
    [step_outputs |-> (NestedStepId :> 5), input_data |-> ("x" :> 1), usage |-> 1]
NoItemContext == [ref |-> NoRef, found |-> EmptyDict]

\* a copy that hands back the object it was asked to copy
model_copy_Same(heap, src, new) == [ref |-> src, heap |-> heap]

\* context.model_copy(deep=True): a new object whose step_outputs,
\* input_data and private _usage_summary are copies of the source's
model_copy(heap, src, new) ==
    [ref |-> new, heap |-> [r \in (DOMAIN heap) \cup {new} |->
                               IF r = new THEN heap[src] ELSE heap[r]]]

\* _process_map_item lines 183-185: item_context = context.model_copy(
\* deep=True); item_context.input_data = {**context.input_data, "item": item}
new_item_context(heap, context, index, item) ==
    LET c == model_copy(heap, context, index) IN
    [ref |-> c.ref,
     heap |-> [c.heap EXCEPT ![c.ref].input_data =
                  set_step_output(heap[context].input_data, "item", item)]]

\* _process_map_item lines 188-193: the nested step of a succeeding item
\* writes its output into item_context; a failing one raises before that.
\* The nested step is a model-call step: execute_ai_step line 268 adds the
\* usage of its call to the context it runs on
run_item_steps(heap, ref, entry) ==
    IF entry.ok
    THEN [heap EXCEPT ![ref].step_outputs =
             set_step_output(heap[ref].step_outputs, NestedStepId,
                             ItemResult(entry.item)),
                      ![ref].usage = add_step_usage(heap[ref].usage)]
    ELSE heap

\* a gather that completes as soon as one task has ended with an exception
gather_done_FirstException(tasks) ==
    \/ \A i \in DOMAIN tasks : tasks[i] \in {"done", "failed"}
    \/ \E i \in DOMAIN tasks : tasks[i] = "failed"

\* asyncio.gather(*tasks, return_exceptions=True), line 176: the await
\* completes when every task has ended, by returning or by raising
gather_done(tasks) == \A i \in DOMAIN tasks : tasks[i] \in {"done", "failed"}

MapInit ==
    /\ input_list \in UNION {[1..n -> InputEntries] : n \in 0..MaxItems}
    /\ concurrency \in ConcurrencySpecs
    /\ on_item_failure \in OnItemFailureValues
    /\ map_pc = "start"
    /\ map_i = 1
    /\ map_results = <<>>
    /\ semaphore = 0
    /\ task_state = <<>>
    /\ map_started = <<>>
    /\ map_error = "none"
    /\ ctx_heap = (ParentRef :> ParentContext)
    /\ item_ctx = [i \in DOMAIN input_list |-> NoItemContext]

\* the map's variables while another component runs
MapIdle ==
    /\ input_list = <<>>
    /\ concurrency = <<>>
    /\ on_item_failure = "skip"
    /\ map_pc = "idle"
    /\ map_i = 1
    /\ map_results = <<>>
    /\ semaphore = 0
    /\ task_state = <<>>
    /\ map_started = <<>>
    /\ map_error = "none"
    /\ ctx_heap = (ParentRef :> ParentContext)
    /\ item_ctx = <<>>

\* _process_map lines 126-137 and _process_map_parallel lines 156-174:
\* choose the mode; the parallel mode creates the semaphore, the
\* pre-allocated results and one task per item
ProcessMapStart ==
    /\ map_pc = "start"
    /\ IF UsesParallel(concurrency)
       THEN /\ map_pc' = "par"
            /\ semaphore' = max_parallel_of(concurrency)
            /\ map_results' = [i \in 1..Len(input_list) |-> Null]
            /\ task_state' = [i \in 1..Len(input_list) |-> "created"]
       ELSE /\ map_pc' = "seq"
            /\ UNCHANGED <<semaphore, map_results, task_state>>
    /\ UNCHANGED <<input_list, concurrency, on_item_failure, map_i,
                   map_started, map_error, ctx_heap, item_ctx>>
    /\ UNCHANGED map_others

\* _process_map lines 139-148: one iteration of the sequential loop; a raise
\* leaves _process_map and process() wraps it (lines 67-73)
SeqItem ==
    /\ map_pc = "seq"
    /\ map_i <= Len(input_list)
    /\ LET r == SeqItemStep(map_results, input_list[map_i], on_item_failure)
       IN  /\ map_started' = Append(map_started, map_i)
           /\ map_results' = r.results
           /\ IF r.raised
              THEN /\ map_pc' = "raised"
                   /\ map_error' = "StepExecutionError"
                   /\ map_i' = map_i
              ELSE /\ map_pc' = "seq"
                   /\ map_error' = map_error
                   /\ map_i' = map_i + 1
    /\ LET c == new_item_context(ctx_heap, ParentRef, map_i, input_list[map_i].item)
       IN  /\ ctx_heap' = run_item_steps(c.heap, c.ref, input_list[map_i])
           /\ item_ctx' = [item_ctx EXCEPT ![map_i] =
                              [ref |-> c.ref, found |-> c.heap[c.ref].step_outputs]]
    /\ UNCHANGED <<input_list, concurrency, on_item_failure, semaphore, task_state>>
    /\ UNCHANGED map_others

\* _process_map line 150: the sequential loop is exhausted, return results
SeqReturn ==
    /\ map_pc = "seq"
    /\ map_i > Len(input_list)
    /\ map_pc' = "returned"
    /\ UNCHANGED <<input_list, concurrency, on_item_failure, map_i, map_results,
                   semaphore, task_state, map_started, map_error, ctx_heap,
                   item_ctx>>
    /\ UNCHANGED map_others

\* process_item_with_semaphore line 163: a task enters "async with semaphore"
\* and calls _process_map_item
TaskAcquire(i) ==
    /\ map_pc = "par"
    /\ task_state[i] = "created"
    /\ SemaphoreFree(semaphore)
    /\ semaphore' = semaphore - 1
    /\ task_state' = [task_state EXCEPT ![i] = "running"]
    /\ map_started' = Append(map_started, i)
    /\ LET c == new_item_context(ctx_heap, ParentRef, i, input_list[i].item)
       IN  /\ ctx_heap' = c.heap
           /\ item_ctx' = [item_ctx EXCEPT ![i] =
                              [ref |-> c.ref, found |-> c.heap[c.ref].step_outputs]]
    /\ UNCHANGED <<input_list, concurrency, on_item_failure, map_pc, map_i,
                   map_results, map_error>>
    /\ UNCHANGED map_others

\* process_item_with_semaphore lines 164-171: _process_map_item returned or
\* raised; the task stores its result or ends with the exception, and leaving
\* "async with" releases the semaphore
TaskFinish(i) ==
    /\ map_pc = "par"
    /\ task_state[i] = "running"
    /\ LET r == ParItemStep(map_results, i, input_list[i], on_item_failure)
       IN  /\ map_results' = r.results
           /\ task_state' = [task_state EXCEPT ![i] = IF r.raised THEN "failed" ELSE "done"]
    /\ semaphore' = semaphore + 1
    /\ ctx_heap' = run_item_steps(ctx_heap, item_ctx[i].ref, input_list[i])
    /\ UNCHANGED <<input_list, concurrency, on_item_failure, map_pc, map_i,
                   map_started, map_error, item_ctx>>
    /\ UNCHANGED map_others

\* _process_map_parallel lines 176-177: gather(*tasks, return_exceptions=True)
\* completes when every task has ended and hands exceptions back as values,
\* which are dropped; results is returned
GatherReturn ==
    /\ map_pc = "par"
    /\ gather_done(task_state)
    /\ map_pc' = "returned"
    /\ UNCHANGED <<input_list, concurrency, on_item_failure, map_i, map_results,
                   semaphore, task_state, map_started, map_error, ctx_heap,
                   item_ctx>>
    /\ UNCHANGED map_others

MapNext ==
    \/ ProcessMapStart
    \/ SeqItem
    \/ SeqReturn
    \/ \E i \in 1..Len(input_list) : TaskAcquire(i)
    \/ \E i \in 1..Len(input_list) : TaskFinish(i)
    \/ GatherReturn

\* ------------------------------------------------- _CompletionProcessor
\* response.choices[0].message.content, "" when it is None
Contents == {<<>>, <<"a">>, <<"b">>}
\* response.choices[0].finish_reason (for ollama: after the done_reason override)
FinishReasons == {"stop", "length", "max_tokens", "content_filter"}
\* the finish reasons _handle_completion_result treats as truncation
TruncationReasons == {"length", "max_tokens"}
UsageKeys == {"prompt_tokens", "completion_tokens", "total_tokens"}
\* response.usage.model_dump(), EmptyDict when response.usage is None
Usages == {EmptyDict, [prompt_tokens |-> 1, completion_tokens |-> 2, total_tokens |-> 3]}
\* what _calculate_cost returns for a response with the given usage, 0 when
\* it returns None
CostOf(usage) == IF usage = EmptyDict THEN 0 ELSE 1
\* what litellm.completion can return
ProviderResponses ==
    {[content |-> c, finish_reason |-> f, usage |-> u, cost |-> CostOf(u)] :
        c \in Contents, f \in FinishReasons, u \in Usages}
OriginalPrompt == <<"prompt">>
ContinueInstruction == <<"continue">>
\* AIResponse fields that are None
NoCost == -1
NoResponse == [content |-> <<>>, usage |-> EmptyDict, finish_reason |-> "none", cost_usd |-> NoCost]

\* dict.get(key, 0)
Get(d, k) == IF k \in DOMAIN d THEN d[k] ELSE 0

\* accumulate_usage that keeps only the latest response's usage
accumulate_usage_Overwrite(acc, usage) == usage

\* _accumulate_response_data lines 346-350
accumulate_usage(acc, usage) ==
    IF usage = EmptyDict
    THEN acc
    ELSE [k \in (DOMAIN acc) \cup (DOMAIN usage) |-> Get(acc, k) + Get(usage, k)]

\* _accumulate_response_data lines 352-354
accumulate_cost(acc, cost) == IF cost # 0 THEN acc + cost ELSE acc

\* _prepare_continuation_messages lines 277-287
prepare_continuation_messages(msgs, n, content) ==
    IF n > 0 /\ content # <<>>
    THEN << [role |-> "user", content |-> msgs[1].content],
            [role |-> "assistant", content |-> content],
            [role |-> "user", content |-> ContinueInstruction] >>
    ELSE msgs

\* _create_final_response lines 405-412
create_final_response(content, usage, cost, finish_reason) ==
    [content |-> content, usage |-> usage, finish_reason |-> finish_reason,
     cost_usd |-> IF cost > 0 THEN cost ELSE NoCost]

\* _create_fallback_response lines 440-447
create_fallback_response(content, usage, cost) ==
    [content |-> content, usage |-> usage, finish_reason |-> "max_auto_retries_reached",
     cost_usd |-> IF cost > 0 THEN cost ELSE NoCost]

\* _handle_completion_result lines 378-399: the final response, or NoResponse
\* (None) when the truncated response is to be continued
handle_completion_result(content, usage, cost, finish_reason, n, max_n) ==
    IF finish_reason = "stop"
    THEN create_final_response(content, usage, cost, finish_reason)
    ELSE IF finish_reason \in TruncationReasons
    THEN IF n >= max_n
         THEN create_final_response(content, usage, cost, finish_reason)
         ELSE NoResponse
    ELSE create_final_response(content, usage, cost, finish_reason)

\* the exception classes litellm.completion can raise
ExceptionTypes == {"Timeout", "APIError"}
NoAIError == [cls |-> "none", original |-> "none"]

\* backoff_delay that grows linearly
backoff_delay_Linear(k) == 2 * k

\* _execute_completion_with_retries line 330: asyncio.sleep(2**attempt)
backoff_delay(k) == 2 ^ k

\* a retry test that never gives up
should_retry_Always(k, max_k) == TRUE

\* _execute_completion_with_retries line 329: attempt < context.max_retries
should_retry(k, max_k) == k < max_k

AIInit ==
    /\ max_auto_retry_attempts \in 0..MaxAutoRetry
    /\ max_retries \in 0..MaxRetries
    /\ ai_pc = "round"
    /\ continuation_attempt = 0
    /\ attempt = 0
    /\ messages = << [role |-> "user", content |-> OriginalPrompt] >>
    /\ accumulated_content = <<>>
    /\ accumulated_usage = EmptyDict
    /\ accumulated_cost = 0
    /\ total_api_calls = 0
    /\ ai_response = NoResponse
    /\ ai_rounds = <<>>
    /\ ai_calls = 0
    /\ ai_sleeps = <<>>
    /\ last_error = "none"
    /\ round_errors = <<>>
    /\ round_calls = 0
    /\ ai_error = NoAIError
    /\ ai_step_pc = "complete"
    /\ usage_summary_calls = 0

\* the completion's variables while another component runs
AIIdle ==
    /\ max_auto_retry_attempts = 0
    /\ max_retries = 0
    /\ ai_pc = "idle"
    /\ continuation_attempt = 0
    /\ attempt = 0
    /\ messages = <<>>
    /\ accumulated_content = <<>>
    /\ accumulated_usage = EmptyDict
    /\ accumulated_cost = 0
    /\ total_api_calls = 0
    /\ ai_response = NoResponse
    /\ ai_rounds = <<>>
    /\ ai_calls = 0
    /\ ai_sleeps = <<>>
    /\ last_error = "none"
    /\ round_errors = <<>>
    /\ round_calls = 0
    /\ ai_error = NoAIError
    /\ ai_step_pc = "complete"
    /\ usage_summary_calls = 0

\* process_completion lines 247-260 and 271: the head of the continuation
\* loop prepares the messages of the round and enters the retry loop; when
\* range(max_auto_retry_attempts + 1) is exhausted the fallback is returned
RoundStart ==
    /\ ai_pc = "round"
    /\ IF continuation_attempt <= max_auto_retry_attempts
       THEN /\ messages' = prepare_continuation_messages(messages, continuation_attempt,
                                                         accumulated_content)
            /\ attempt' = 0
            /\ ai_sleeps' = <<>>
            /\ last_error' = "none"
            /\ round_errors' = <<>>
            /\ round_calls' = 0
            /\ ai_pc' = "call"
            /\ ai_response' = ai_response
       ELSE /\ ai_response' = create_fallback_response(accumulated_content,
                                                       accumulated_usage, accumulated_cost)
            /\ ai_pc' = "returned"
            /\ UNCHANGED <<messages, attempt, ai_sleeps, last_error, round_errors,
                           round_calls>>
    /\ UNCHANGED <<max_auto_retry_attempts, max_retries, continuation_attempt,
                   accumulated_content, accumulated_usage, accumulated_cost,
                   total_api_calls, ai_rounds, ai_calls, ai_error,
                   ai_step_pc, usage_summary_calls>>
    /\ UNCHANGED ai_others

\* _execute_completion_with_retries lines 301-325 and process_completion
\* lines 266-267: litellm.completion returned; count it, accumulate it and
\* either return the final response or go to the next continuation round
CompletionSucceeds ==
    /\ ai_pc = "call"
    /\ \E response \in ProviderResponses :
        LET content == accumulated_content \o response.content
            usage == accumulate_usage(accumulated_usage, response.usage)
            cost == accumulate_cost(accumulated_cost, response.cost)
            final == handle_completion_result(content, usage, cost, response.finish_reason,
                                              continuation_attempt, max_auto_retry_attempts)
        IN  /\ total_api_calls' = total_api_calls + 1
            /\ ai_calls' = ai_calls + 1
            /\ round_calls' = round_calls + 1
            /\ last_error' = "none"
            /\ round_errors' = <<>>
            /\ ai_rounds' = Append(ai_rounds, response)
            /\ accumulated_content' = content
            /\ accumulated_usage' = usage
            /\ accumulated_cost' = cost
            /\ ai_response' = final
            /\ IF final # NoResponse
               THEN ai_pc' = "returned" /\ continuation_attempt' = continuation_attempt
               ELSE ai_pc' = "round" /\ continuation_attempt' = continuation_attempt + 1
    /\ UNCHANGED <<max_auto_retry_attempts, max_retries, attempt, messages, ai_sleeps,
                   ai_error, ai_step_pc, usage_summary_calls>>
    /\ UNCHANGED ai_others

\* a last failure that hands the accumulated content back as a response
raise_provider_error_ReturnsPartial(content, error) ==
    [raised |-> FALSE, error |-> NoAIError,
     response |-> [content |-> content, usage |-> EmptyDict,
                   finish_reason |-> "error", cost_usd |-> NoCost]]

\* lines 333-337, re-raised by process_completion lines 268-269: the last
\* failure of a round leaves the invocation with an AIProviderError that
\* wraps last_error; no response is built from context.accumulated_content
raise_provider_error(content, error) ==
    [raised |-> TRUE, error |-> [cls |-> "AIProviderError", original |-> error],
     response |-> NoResponse]

\* _execute_completion_with_retries lines 327-337: litellm.completion raised;
\* sleep 2**attempt and retry, or raise AIProviderError after the last attempt
CompletionFails ==
    /\ ai_pc = "call"
    /\ ai_calls' = ai_calls + 1
    /\ round_calls' = round_calls + 1
    /\ \E e \in ExceptionTypes :
          /\ last_error' = e
          /\ round_errors' = Append(round_errors, e)
    /\ IF should_retry(attempt, max_retries)
       THEN /\ ai_sleeps' = Append(ai_sleeps, backoff_delay(attempt))
            /\ attempt' = attempt + 1
            /\ ai_pc' = "call"
            /\ ai_error' = ai_error
            /\ ai_response' = ai_response
       ELSE LET r == raise_provider_error(accumulated_content, last_error') IN
            /\ ai_pc' = IF r.raised THEN "raised" ELSE "returned"
            /\ ai_error' = r.error
            /\ ai_response' = r.response
            /\ UNCHANGED <<attempt, ai_sleeps>>
    /\ UNCHANGED <<max_auto_retry_attempts, max_retries, continuation_attempt, messages,
                   accumulated_content, accumulated_usage, accumulated_cost,
                   total_api_calls, ai_rounds, ai_step_pc,
                   usage_summary_calls>>
    /\ UNCHANGED ai_others

\* _execute_ai_call_step lines 195-198: ai_provider.complete returned its
\* response; the step adds the response's usage to the execution context
\* once and returns the content
AddStepUsage ==
    /\ ai_pc = "returned"
    /\ ai_step_pc = "complete"
    /\ ai_step_pc' = "returned"
    /\ usage_summary_calls' = add_step_usage(usage_summary_calls)
    /\ UNCHANGED <<max_auto_retry_attempts, max_retries, continuation_attempt, attempt,
                   messages, accumulated_content, accumulated_usage, accumulated_cost,
                   total_api_calls, ai_response, ai_rounds, ai_calls, ai_sleeps,
                   last_error, round_errors, round_calls, ai_error, ai_pc>>
    /\ UNCHANGED ai_others

AINext ==
    \/ RoundStart
    \/ CompletionSucceeds
    \/ CompletionFails
    \/ AddStepUsage

\* ------------------------------------- _execute_ai_call_with_validation
\* response.content values of the provider: "x" is not JSON, "y" is JSON
\* that breaks the schema, "j" is JSON that fits it, "0" is JSON that fits
\* it and parses to a falsy value
RawOutputs == {"x", "y", "j", "0"}
PyNone == "None"
FalsyValues == {PyNone, "zero"}
NoOutput == "none"
NoValError ==
    [cls |-> "none", original_output |-> NoOutput, validation_errors |-> <<>>,
     original |-> "none"]

\* JSONSchemaValidator.validate lines 63-93 under OutputValidator.validate
\* lines 290-301: the result of validating one output on a given attempt
validate(output, attempt_no) ==
    CASE output = "x" ->
           [is_valid |-> FALSE, validated_output |-> PyNone,
            errors |-> <<"Invalid JSON format">>,
            attempt_count |-> attempt_no, original_output |-> output]
      [] output = "y" ->
           [is_valid |-> FALSE, validated_output |-> PyNone,
            errors |-> <<"Schema validation failed">>,
            attempt_count |-> attempt_no, original_output |-> output]
      [] output = "j" ->
           [is_valid |-> TRUE, validated_output |-> "parsed_j",
            errors |-> <<>>,
            attempt_count |-> attempt_no, original_output |-> output]
      [] OTHER ->
           [is_valid |-> TRUE, validated_output |-> "zero",
            errors |-> <<>>,
            attempt_count |-> attempt_no, original_output |-> output]

\* line 275: validation_result.validated_output or response.content
py_or(a, b) == IF a \in FalsyValues THEN b ELSE a

\* the parts a prompt is concatenated from
OriginalPart == [kind |-> "original", errors |-> <<>>]
WrapperPart == [kind |-> "json_wrapper", errors |-> <<>>]

\* lines 234-239: current_prompt before the first attempt
initial_prompt(force_json) ==
    IF force_json THEN <<OriginalPart, WrapperPart>> ELSE <<OriginalPart>>

get_retry_prompt_Constant(validation_result) == [kind |-> "retry", errors |-> <<>>]

\* OutputValidator.get_retry_prompt lines 323-328 with get_retry_prompt_suffix
\* lines 95-105: the remediation text is made of the result's errors
get_retry_prompt(validation_result) ==
    [kind |-> "retry", errors |-> validation_result.errors]

\* line 280: f"{original_prompt}\n\n{retry_prompt_suffix}"
prepare_retry_prompt(original_prompt, retry_prompt_suffix) ==
    Append(original_prompt, retry_prompt_suffix)

retry_allowed_Always(k, max_k) == k <= max_k

\* lines 278 and 308: attempt < validation_config.max_retries
retry_allowed(k, max_k) == k < max_k

\* line 241: whether range(max_retries + 1) has a value after k
loop_has_next(k, max_k) == k + 1 < max_k + 1

\* lines 284-288
MakeValidationError(original_output, validation_errors) ==
    [cls |-> "ValidationError", original_output |-> original_output,
     validation_errors |-> validation_errors, original |-> "none"]

\* lines 294-306 and 311-323
MakeStepExecutionError(original) ==
    [cls |-> "StepExecutionError", original_output |-> NoOutput,
     validation_errors |-> <<>>, original |-> original]

\* line 326
LoopRuntimeError ==
    [cls |-> "RuntimeError", original_output |-> NoOutput,
     validation_errors |-> <<>>, original |-> "none"]

\* exceptions of one attempt other than AIProviderError: the attribute
\* lookup of lines 244-248 fails before the provider is asked, or
\* ai_provider.complete itself raises
AttemptExceptions == {"AttributeError", "Exception"}

ValidationInit ==
    /\ validation_max_retries \in 0..MaxValRetries
    /\ force_json_output \in BOOLEAN
    /\ val_pc = "attempt"
    /\ val_attempt = 0
    /\ current_prompt = initial_prompt(force_json_output)
    /\ prompts_sent = <<>>
    /\ results_before = <<>>
    /\ val_results = <<>>
    /\ val_return = NoOutput
    /\ val_error = NoValError

\* the validation loop's variables while another component runs
ValidationIdle ==
    /\ validation_max_retries = 0
    /\ force_json_output = FALSE
    /\ val_pc = "idle"
    /\ val_attempt = 0
    /\ current_prompt = <<>>
    /\ prompts_sent = <<>>
    /\ results_before = <<>>
    /\ val_results = <<>>
    /\ val_return = NoOutput
    /\ val_error = NoValError

\* lines 265-288: ai_provider.complete returns a response, the validator
\* judges it, and the attempt returns, retries or raises ValidationError;
\* falling out of the for loop raises the RuntimeError of line 326
AttemptReturns ==
    /\ val_pc = "attempt"
    /\ \E output \in RawOutputs :
         LET validation_result == validate(output, val_attempt + 1) IN
         /\ prompts_sent' = Append(prompts_sent, current_prompt)
         /\ results_before' = Append(results_before, Len(val_results))
         /\ val_results' = Append(val_results, validation_result)
         /\ IF validation_result.is_valid
            THEN /\ val_pc' = "returned"
                 /\ val_return' = py_or(validation_result.validated_output, output)
                 /\ UNCHANGED <<val_attempt, current_prompt, val_error>>
            ELSE IF retry_allowed(val_attempt, validation_max_retries)
            THEN /\ current_prompt' =
                      prepare_retry_prompt(<<OriginalPart>>,
                                           get_retry_prompt(validation_result))
                 /\ IF loop_has_next(val_attempt, validation_max_retries)
                    THEN /\ val_attempt' = val_attempt + 1
                         /\ UNCHANGED <<val_pc, val_error>>
                    ELSE /\ val_pc' = "raised"
                         /\ val_error' = LoopRuntimeError
                         /\ UNCHANGED val_attempt
                 /\ UNCHANGED val_return
            ELSE /\ val_pc' = "raised"
                 /\ val_error' = MakeValidationError(output, validation_result.errors)
                 /\ UNCHANGED <<val_attempt, current_prompt, val_return>>
    /\ UNCHANGED <<validation_max_retries, force_json_output>>
    /\ UNCHANGED val_others

\* lines 292-306: ai_provider.complete raises AIProviderError, which ends
\* the loop at once as a StepExecutionError
AttemptProviderError ==
    /\ val_pc = "attempt"
    /\ prompts_sent' = Append(prompts_sent, current_prompt)
    /\ results_before' = Append(results_before, Len(val_results))
    /\ val_pc' = "raised"
    /\ val_error' = MakeStepExecutionError("AIProviderError")
    /\ UNCHANGED <<validation_max_retries, force_json_output, val_attempt,
                   current_prompt, val_results, val_return>>
    /\ UNCHANGED val_others

\* lines 307-323: any other exception of the attempt is retried with the
\* prompt unchanged while attempts remain, else raised as StepExecutionError
AttemptException ==
    /\ val_pc = "attempt"
    /\ \E e \in AttemptExceptions :
         /\ IF e = "AttributeError"
            THEN UNCHANGED <<prompts_sent, results_before>>
            ELSE /\ prompts_sent' = Append(prompts_sent, current_prompt)
                 /\ results_before' = Append(results_before, Len(val_results))
         /\ IF retry_allowed(val_attempt, validation_max_retries)
            THEN IF loop_has_next(val_attempt, validation_max_retries)
                 THEN /\ val_attempt' = val_attempt + 1
                      /\ UNCHANGED <<val_pc, val_error>>
                 ELSE /\ val_pc' = "raised"
                      /\ val_error' = LoopRuntimeError
                      /\ UNCHANGED val_attempt
            ELSE /\ val_pc' = "raised"
                 /\ val_error' = MakeStepExecutionError(e)
                 /\ UNCHANGED val_attempt
    /\ UNCHANGED <<validation_max_retries, force_json_output, current_prompt,
                   val_results, val_return>>
    /\ UNCHANGED val_others

ValidationNext ==
    \/ AttemptReturns
    \/ AttemptProviderError
    \/ AttemptException

\* ------------------------------------------- _execute_conditional_step
PyTrue == "py_true"
PyFalse == "py_false"
\* marks a condition whose rendering raises
Raises == "<raises>"
\* marks a nested step whose execution raises
Fail == "<fail>"
\* values render_template_object yields that are not str
NonStringRaw == {"<list>", "<empty>"}
\* what rendering a condition can do: three strings, a non-string, an error
RawConditions == {"True", "on", "<empty>", Raises}
\* a branch's nested steps, each by the output it yields or Fail
NestedLists == {<<>>, <<"out1", "out2">>, <<"out1", Fail>>}
BranchNames == <<"b1", "b2", "b3", "b4">>
ErrorMessage == "boom"

\* str.lower() on the rendered strings
Lower(raw) == IF raw = "True" THEN "true" ELSE raw

\* lines 476-480 and 557-561: the coercion of a rendered condition
coerce_condition(raw) ==
    IF raw \notin NonStringRaw
    THEN IF Lower(raw) \in {"true", "1", "yes"} THEN PyTrue ELSE PyFalse
    ELSE IF raw = "<list>" THEN PyTrue ELSE PyFalse

\* _execute_step_list lines 608-619: the steps run in order, the first
\* failure propagates, otherwise the last step's output (None if no steps)
execute_step_list(steps) ==
    IF \E i \in 1..Len(steps) : steps[i] = Fail
    THEN [raised |-> TRUE, output |-> PyNone]
    ELSE [raised |-> FALSE,
          output |-> IF steps = <<>> THEN PyNone ELSE steps[Len(steps)]]

\* the ids of the nested steps of a list, by position, and the
\* step_outputs of the enclosing context when the conditional starts: an
\* earlier top-level step has the id of the first nested step
NestedStepIds == <<"n1", "n2">>
EnclosingOutputs == ("n1" :> "earlier")

\* _execute_step_list lines 613-616: context.set_step_output(step.id,
\* result) after each nested step that returned, on the context passed in
RECURSIVE step_list_writes(_, _, _)
step_list_writes(steps, k, outs) ==
    IF k > Len(steps) \/ steps[k] = Fail THEN outs
    ELSE step_list_writes(steps, k + 1,
                          set_step_output(outs, NestedStepIds[k], steps[k]))

ConditionalResult(out, cres, branch, err) ==
    [output |-> out, condition_result |-> cres, executed_branch |-> branch,
     evaluation_error |-> err]

NoCondResult == ConditionalResult("none", "none", "none", "none")
NoCondError == [cls |-> "none", original |-> "none"]

\* lines 504-509 and 590-595
EmptyResult(err) == ConditionalResult(PyNone, PyNone, PyNone, err)

basic_condition_error_ContinueTrue(policy) ==
    [raises |-> policy = "stop", returns_empty |-> policy = "skip_remaining",
     condition_result |-> PyTrue]

\* lines 484-509: what on_condition_error makes of a failed evaluation in
\* the basic form
basic_condition_error(policy) ==
    [raises |-> policy = "stop", returns_empty |-> policy = "skip_remaining",
     condition_result |-> PyFalse]

branch_condition_error_ContinueReturns(policy) ==
    [raises |-> policy = "stop", returns_empty |-> TRUE]

\* lines 570-595: what on_condition_error makes of an exception caught in
\* the branch loop; neither raising nor returning means continue
branch_condition_error(policy) ==
    [raises |-> policy = "stop", returns_empty |-> policy = "skip_remaining"]

\* position after the iteration of branch k when the loop goes on
after_branch(k) == IF k < Len(conditions) THEN "loop" ELSE "finish"

Branches == [condition : RawConditions, steps : NestedLists, default : BOOLEAN]

\* ConditionalStep.validate_conditions_structure lines 68-86
AtMostOneDefault(bs) ==
    Cardinality({k \in 1..Len(bs) : bs[k].default}) <= 1

BranchLists ==
    {bs \in UNION {[1..n -> Branches] : n \in 0..MaxBranches} : AtMostOneDefault(bs)}

CondInit ==
    /\ cond_form \in {"basic", "multi"}
    /\ on_condition_error \in OnErrorValues
    /\ cond_on_error \in OnErrorValues
    /\ IF cond_form = "basic"
       THEN /\ condition \in RawConditions
            /\ if_true \in NestedLists
            /\ if_false \in NestedLists
            /\ conditions = <<>>
            /\ cond_pc = "evaluate"
       ELSE /\ condition = PyNone
            /\ if_true = <<>>
            /\ if_false = <<>>
            /\ conditions \in BranchLists
            /\ cond_pc = IF conditions = <<>> THEN "finish" ELSE "loop"
    /\ cond_k = 1
    /\ condition_result = PyNone
    /\ evaluation_error = PyNone
    /\ executed_branch = PyNone
    /\ cond_output = PyNone
    /\ cond_result = NoCondResult
    /\ cond_error = NoCondError
    /\ considered = <<>>
    /\ evaluated = <<>>
    /\ executed = <<>>
    /\ cond_step_outputs = EnclosingOutputs

\* the conditional's variables while another component runs
CondIdle ==
    /\ cond_form = "idle"
    /\ on_condition_error = "stop"
    /\ cond_on_error = "stop"
    /\ condition = PyNone
    /\ if_true = <<>>
    /\ if_false = <<>>
    /\ conditions = <<>>
    /\ cond_pc = "idle"
    /\ cond_k = 1
    /\ condition_result = PyNone
    /\ evaluation_error = PyNone
    /\ executed_branch = PyNone
    /\ cond_output = PyNone
    /\ cond_result = NoCondResult
    /\ cond_error = NoCondError
    /\ considered = <<>>
    /\ evaluated = <<>>
    /\ executed = <<>>
    /\ cond_step_outputs = EnclosingOutputs

\* _execute_basic_conditional lines 472-509: render and coerce the
\* condition; a failure raises TemplateError, counts as false, or returns
\* the empty result
BasicEvaluate ==
    /\ cond_pc = "evaluate"
    /\ evaluated' = Append(evaluated, 1)
    /\ IF condition # Raises
       THEN /\ condition_result' = coerce_condition(condition)
            /\ cond_pc' = "branch"
            /\ UNCHANGED <<evaluation_error, cond_result, cond_error>>
       ELSE LET h == basic_condition_error(on_condition_error) IN
            /\ evaluation_error' = ErrorMessage
            /\ IF h.raises
               THEN /\ cond_pc' = "raised"
                    /\ cond_error' = [cls |-> "TemplateError", original |-> "condition"]
                    /\ UNCHANGED <<condition_result, cond_result>>
               ELSE IF h.returns_empty
               THEN /\ cond_pc' = "returned"
                    /\ cond_result' = EmptyResult(ErrorMessage)
                    /\ UNCHANGED <<condition_result, cond_error>>
               ELSE /\ cond_pc' = "branch"
                    /\ condition_result' = h.condition_result
                    /\ UNCHANGED <<cond_result, cond_error>>
    /\ UNCHANGED <<cond_form, condition, if_true, if_false, conditions,
                   on_condition_error, cond_on_error, cond_k, executed_branch,
                   cond_output, considered, executed, cond_step_outputs>>
    /\ UNCHANGED cond_others

\* _execute_basic_conditional lines 511-532: run if_true or if_false; a
\* failing nested step is re-raised under on_error = stop and otherwise
\* leaves output None
BasicBranch ==
    /\ cond_pc = "branch"
    /\ LET chosen == IF condition_result = PyTrue /\ if_true # <<>> THEN "if_true"
                     ELSE IF condition_result # PyTrue /\ if_false # <<>> THEN "if_false"
                     ELSE PyNone
           r == IF chosen = "if_true" THEN execute_step_list(if_true)
                ELSE execute_step_list(if_false)
       IN
       /\ executed_branch' = chosen
       /\ executed' = IF chosen = PyNone THEN executed ELSE Append(executed, chosen)
       /\ cond_step_outputs' =
             IF chosen = "if_true" THEN step_list_writes(if_true, 1, cond_step_outputs)
             ELSE IF chosen = "if_false"
             THEN step_list_writes(if_false, 1, cond_step_outputs)
             ELSE cond_step_outputs
       /\ IF chosen # PyNone /\ r.raised /\ cond_on_error = "stop"
          THEN /\ cond_pc' = "raised"
               /\ cond_error' = [cls |-> "StepExecutionError", original |-> "nested"]
               /\ UNCHANGED <<cond_output, cond_result>>
          ELSE /\ cond_pc' = "returned"
               /\ cond_output' = IF chosen = PyNone THEN PyNone ELSE r.output
               /\ cond_result' = ConditionalResult(cond_output', condition_result,
                                                   chosen, evaluation_error)
               /\ UNCHANGED cond_error
    /\ UNCHANGED <<cond_form, condition, if_true, if_false, conditions,
                   on_condition_error, cond_on_error, cond_k, condition_result,
                   evaluation_error, considered, evaluated>>
    /\ UNCHANGED cond_others

\* _execute_multi_branch_conditional lines 544-595: one iteration of the
\* for loop.  The nested steps of a matching branch run inside the try
\* block, so their failure is caught by the same handler as a failed
\* condition; the nested steps of a default branch run outside it
BranchStep ==
    /\ cond_pc = "loop"
    /\ LET branch == conditions[cond_k]
           name == BranchNames[cond_k]
           r == execute_step_list(branch.steps)
           h == branch_condition_error(on_condition_error)
           matches == /\ ~branch.default
                      /\ branch.condition # Raises
                      /\ coerce_condition(branch.condition) = PyTrue
           caught == /\ ~branch.default
                     /\ \/ branch.condition = Raises
                        \/ matches /\ r.raised
       IN
       /\ considered' = Append(considered, cond_k)
       /\ evaluated' = IF branch.default THEN evaluated ELSE Append(evaluated, cond_k)
       /\ executed' = IF \/ branch.default /\ executed_branch = PyNone
                         \/ matches
                      THEN Append(executed, name) ELSE executed
       /\ cond_step_outputs' =
             IF \/ branch.default /\ executed_branch = PyNone
                \/ matches
             THEN step_list_writes(branch.steps, 1, cond_step_outputs)
             ELSE cond_step_outputs
       /\ IF branch.default
          THEN IF executed_branch = PyNone
               THEN /\ executed_branch' = name
                    /\ IF r.raised
                       THEN /\ cond_pc' = "raised"
                            /\ cond_error' = [cls |-> "StepExecutionError",
                                              original |-> "nested"]
                            /\ UNCHANGED <<cond_output, condition_result>>
                       ELSE /\ cond_pc' = "finish"
                            /\ cond_output' = r.output
                            /\ condition_result' = PyTrue
                            /\ UNCHANGED cond_error
                    /\ UNCHANGED <<evaluation_error, cond_result, cond_k>>
               ELSE /\ cond_pc' = "finish"
                    /\ UNCHANGED <<executed_branch, cond_output, condition_result,
                                   cond_error, evaluation_error, cond_result, cond_k>>
          ELSE /\ condition_result' = IF branch.condition = Raises
                                      THEN condition_result
                                      ELSE coerce_condition(branch.condition)
               /\ executed_branch' = IF matches THEN name ELSE executed_branch
               /\ IF caught
                  THEN /\ evaluation_error' = ErrorMessage
                       /\ IF h.raises
                          THEN /\ cond_pc' = "raised"
                               /\ cond_error' =
                                     [cls |-> "TemplateError",
                                      original |-> IF matches THEN "nested"
                                                   ELSE "condition"]
                               /\ UNCHANGED <<cond_result, cond_k>>
                          ELSE IF h.returns_empty
                          THEN /\ cond_pc' = "returned"
                               /\ cond_result' = EmptyResult(ErrorMessage)
                               /\ UNCHANGED <<cond_error, cond_k>>
                          ELSE /\ cond_pc' = after_branch(cond_k)
                               /\ cond_k' = cond_k + 1
                               /\ UNCHANGED <<cond_error, cond_result>>
                       /\ UNCHANGED cond_output
                  ELSE /\ IF matches
                          THEN /\ cond_pc' = "finish"
                               /\ cond_output' = r.output
                               /\ UNCHANGED cond_k
                          ELSE /\ cond_pc' = after_branch(cond_k)
                               /\ cond_k' = cond_k + 1
                               /\ UNCHANGED cond_output
                       /\ UNCHANGED <<evaluation_error, cond_error, cond_result>>
    /\ UNCHANGED <<cond_form, condition, if_true, if_false, conditions,
                   on_condition_error, cond_on_error>>
    /\ UNCHANGED cond_others

\* _execute_multi_branch_conditional lines 597-606: after the loop
MultiReturn ==
    /\ cond_pc = "finish"
    /\ condition_result' =
          IF executed_branch = PyNone /\ evaluation_error = PyNone
          THEN PyNone ELSE condition_result
    /\ cond_result' = ConditionalResult(cond_output, condition_result',
                                        executed_branch, evaluation_error)
    /\ cond_pc' = "returned"
    /\ UNCHANGED <<cond_form, condition, if_true, if_false, conditions,
                   on_condition_error, cond_on_error, cond_k, evaluation_error,
                   executed_branch, cond_output, cond_error, considered,
                   evaluated, executed, cond_step_outputs>>
    /\ UNCHANGED cond_others

CondNext ==
    \/ BasicEvaluate
    \/ BasicBranch
    \/ BranchStep
    \/ MultiReturn

\* --------------------------------------- CollectionProcessor._process_filter
OnConditionErrorValues == {"skip_item", "stop", "default_false"}
\* what rendering the condition with one item bound can yield
FilterConditions == {"True", "on", "0", "<empty>", Raises}
FilterEntries == [item : Items, condition : FilterConditions]

\* lines 223-227: the coercion of a rendered filter condition
coerce_filter_condition(raw) ==
    IF raw \notin NonStringRaw
    THEN Lower(raw) \in {"true", "1", "yes", "on"}
    ELSE raw = "<list>"

filter_item_DefaultFalseKeeps(res, entry, policy) ==
    IF entry.condition = Raises
    THEN [raises |-> policy = "stop",
          results |-> IF policy = "default_false" THEN Append(res, entry.item) ELSE res]
    ELSE [raises |-> FALSE,
          results |-> IF coerce_filter_condition(entry.condition)
                      THEN Append(res, entry.item) ELSE res]

\* lines 215-242: one iteration of the filter loop
filter_item(res, entry, policy) ==
    IF entry.condition = Raises
    THEN [raises |-> policy = "stop", results |-> res]
    ELSE [raises |-> FALSE,
          results |-> IF coerce_filter_condition(entry.condition)
                      THEN Append(res, entry.item) ELSE res]

\* lines 213-244: the whole loop from position k with results res
RECURSIVE FilterLoop(_, _, _, _)
FilterLoop(list, policy, k, res) ==
    IF k > Len(list) THEN [raises |-> FALSE, results |-> res]
    ELSE LET r == filter_item(res, list[k], policy) IN
         IF r.raises THEN r ELSE FilterLoop(list, policy, k + 1, r.results)

FilterInit ==
    /\ filter_input \in UNION {[1..n -> FilterEntries] : n \in 0..MaxItems}
    /\ filter_on_condition_error \in OnConditionErrorValues
    /\ filter_pc = "loop"
    /\ filter_i = 1
    /\ filter_results = <<>>
    /\ filter_error = "none"

FilterIdle ==
    /\ filter_input = <<>>
    /\ filter_on_condition_error = "skip_item"
    /\ filter_pc = "idle"
    /\ filter_i = 1
    /\ filter_results = <<>>
    /\ filter_error = "none"

\* lines 215-242: the loop body for the item at filter_i
FilterItem ==
    /\ filter_pc = "loop"
    /\ filter_i <= Len(filter_input)
    /\ LET r == filter_item(filter_results, filter_input[filter_i],
                            filter_on_condition_error) IN
       IF r.raises
       THEN /\ filter_pc' = "raised"
            /\ filter_error' = "StepExecutionError"
            /\ UNCHANGED <<filter_i, filter_results>>
       ELSE /\ filter_results' = r.results
            /\ filter_i' = filter_i + 1
            /\ UNCHANGED <<filter_pc, filter_error>>
    /\ UNCHANGED <<filter_input, filter_on_condition_error>>
    /\ UNCHANGED filter_others

\* line 244
FilterReturn ==
    /\ filter_pc = "loop"
    /\ filter_i > Len(filter_input)
    /\ filter_pc' = "returned"
    /\ UNCHANGED <<filter_input, filter_on_condition_error, filter_i,
                   filter_results, filter_error>>
    /\ UNCHANGED filter_others

FilterNext ==
    \/ FilterItem
    \/ FilterReturn

\* --------------------------------------- CollectionProcessor._process_reduce
StepIds == {"a", "b"}
\* what a nested step computes from the accumulator and the item it sees
StepOps == {"append", "prepend", Fail}
NestedSteps == [id : StepIds, op : StepOps]
InitialValues == {<<>>, <<0>>}
NoReduceResult == <<-1>>

\* the output of one nested step rendered with acc and item bound
step_output(op, acc, item) ==
    IF op = "append" THEN Append(acc, item) ELSE <<item>> \o acc

\* lines 272-277: the nested steps run in order from position k; keys is
\* the insertion order of the dict step_results, res its content
RECURSIVE RunNested(_, _, _, _, _, _)
RunNested(steps, k, acc, item, keys, res) ==
    IF k > Len(steps) THEN [raised |-> FALSE, keys |-> keys, results |-> res]
    ELSE IF steps[k].op = Fail THEN [raised |-> TRUE, keys |-> keys, results |-> res]
    ELSE RunNested(steps, k + 1, acc, item,
                   IF steps[k].id \in DOMAIN res THEN keys ELSE Append(keys, steps[k].id),
                   set_step_output(res, steps[k].id, step_output(steps[k].op, acc, item)))

\* lines 279-281: the accumulator after an iteration
next_accumulator(acc, run) ==
    IF run.keys # <<>> THEN run.results[run.keys[Len(run.keys)]] ELSE acc

\* the context the reduce is called with is object 0 of reduce_heap, the
\* reduce_context of the iteration under way is object 1
ReduceRef == 1

\* lines 264-269: reduce_context = context.model_copy(deep=True);
\* reduce_context.input_data = {**context.input_data, acc: accumulator,
\* item: item}
new_reduce_context(heap, context, acc, item) ==
    LET c == model_copy(heap, context, ReduceRef) IN
    [ref |-> c.ref,
     heap |-> [c.heap EXCEPT ![c.ref].input_data =
                  set_step_output(set_step_output(heap[context].input_data,
                                                  "acc", acc), "item", item)]]

\* lines 274-277 with execute_ai_step line 268: each nested step that
\* completes adds the usage of its call to reduce_context and has its
\* output set there; a failing one raises before either
RECURSIVE run_reduce_steps(_, _, _, _, _, _)
run_reduce_steps(heap, ref, steps, k, acc, item) ==
    IF k > Len(steps) \/ steps[k].op = Fail THEN heap
    ELSE run_reduce_steps(
             [heap EXCEPT ![ref].usage = add_step_usage(heap[ref].usage),
                          ![ref].step_outputs =
                              set_step_output(heap[ref].step_outputs, steps[k].id,
                                              step_output(steps[k].op, acc, item))],
             ref, steps, k + 1, acc, item)

ReduceInit ==
    /\ reduce_input \in UNION {[1..n -> Items] : n \in 0..MaxItems}
    /\ initial_value \in InitialValues
    /\ reduce_steps \in UNION {[1..n -> NestedSteps] : n \in 0..MaxNested}
    /\ reduce_pc = "loop"
    /\ reduce_i = 1
    /\ accumulator = initial_value
    /\ reduce_trace = <<>>
    /\ reduce_result = NoReduceResult
    /\ reduce_error = "none"
    /\ reduce_heap = (ParentRef :> ParentContext)

ReduceIdle ==
    /\ reduce_input = <<>>
    /\ initial_value = <<>>
    /\ reduce_steps = <<>>
    /\ reduce_pc = "idle"
    /\ reduce_i = 1
    /\ accumulator = <<>>
    /\ reduce_trace = <<>>
    /\ reduce_result = NoReduceResult
    /\ reduce_error = "none"
    /\ reduce_heap = (ParentRef :> ParentContext)

\* lines 262-281: the loop body for the item at reduce_i; a failing nested
\* step is not caught
ReduceItem ==
    /\ reduce_pc = "loop"
    /\ reduce_i <= Len(reduce_input)
    /\ LET item == reduce_input[reduce_i]
           run == RunNested(reduce_steps, 1, accumulator, item, <<>>, EmptyDict)
       IN
       /\ reduce_heap' =
             LET c == new_reduce_context(reduce_heap, ParentRef, accumulator, item)
             IN  run_reduce_steps(c.heap, c.ref, reduce_steps, 1, accumulator, item)
       /\ IF run.raised
          THEN /\ reduce_pc' = "raised"
               /\ reduce_error' = "StepExecutionError"
               /\ UNCHANGED <<reduce_i, accumulator, reduce_trace>>
          ELSE
            /\ accumulator' = next_accumulator(accumulator, run)
            /\ reduce_trace' =
                  Append(reduce_trace,
                         [item |-> item, acc |-> accumulator,
                          last_output |->
                             IF reduce_steps = <<>> THEN accumulator
                             ELSE step_output(reduce_steps[Len(reduce_steps)].op,
                                              accumulator, item)])
            /\ reduce_i' = reduce_i + 1
            /\ UNCHANGED <<reduce_pc, reduce_error>>
    /\ UNCHANGED <<reduce_input, initial_value, reduce_steps, reduce_result>>
    /\ UNCHANGED reduce_others

\* line 283
ReduceReturn ==
    /\ reduce_pc = "loop"
    /\ reduce_i > Len(reduce_input)
    /\ reduce_pc' = "returned"
    /\ reduce_result' = accumulator
    /\ UNCHANGED <<reduce_input, initial_value, reduce_steps, reduce_i,
                   accumulator, reduce_trace, reduce_error, reduce_heap>>
    /\ UNCHANGED reduce_others

ReduceNext ==
    \/ ReduceItem
    \/ ReduceReturn

\* ------------------------- CollectionProcessor._dispatch_operation: pipeline
\* a value handed between stages: a list, a str that is not a variable
\* reference, or a str "{{ path }}" whose path names a list of the context
ValueKinds == {"list", "str", "ref"}
ListValue(v) == [kind |-> "list", v |-> v]
NoValue == [kind |-> "none", v |-> <<>>]
\* the list a "ref" string resolves to in the template context
ContextList == <<7>>
NoItem == -1

\* the inline operation specs: a map whose nested steps fail for fail_item,
\* a filter that drops None and whose condition fails for fail_item, a
\* reduce that prepends each item, and an operation the pipeline rejects
StageSpecs ==
    [operation : {"map"}, fail_item : {NoItem}, policy : {"skip"},
     steps : {<<>>}, yields : {"list"}]
    \cup [operation : {"map"}, fail_item : {2}, policy : {"skip", "stop"},
          steps : {<<>>}, yields : {"list"}]
    \cup [operation : {"filter"}, fail_item : {NoItem}, policy : {"skip_item"},
          steps : {<<>>}, yields : {"list"}]
    \cup [operation : {"filter"}, fail_item : {2}, policy : {"skip_item", "stop"},
          steps : {<<>>}, yields : {"list"}]
    \cup [operation : {"reduce"}, fail_item : {NoItem}, policy : {"skip"},
          steps : {<<[id |-> "a", op |-> "prepend"]>>}, yields : ValueKinds]
    \cup [operation : {"reduce"}, fail_item : {NoItem}, policy : {"skip"},
          steps : {<<[id |-> "a", op |-> Fail]>>}, yields : {"list"}]
    \cup [operation : {"sort"}, fail_item : {NoItem}, policy : {"skip"},
          steps : {<<>>}, yields : {"list"}]

\* process lines 35-38: a str input is rendered, anything else is taken as is
evaluate_input(value) ==
    IF value.kind = "ref" THEN ListValue(ContextList) ELSE value

\* _process_reduce lines 262-283 as a function of the list, from position k
RECURSIVE ReduceLoop(_, _, _, _)
ReduceLoop(list, steps, k, acc) ==
    IF k > Len(list) THEN [raised |-> FALSE, acc |-> acc]
    ELSE LET run == RunNested(steps, 1, acc, list[k], <<>>, EmptyDict) IN
         IF run.raised THEN [raised |-> TRUE, acc |-> acc]
         ELSE ReduceLoop(list, steps, k + 1, next_accumulator(acc, run))

\* process lines 33-73 for the step object of one stage: the input must
\* evaluate to a list, then the stage's operation is dispatched
process(stage, value) ==
    LET ev == evaluate_input(value) IN
    IF ev.kind # "list" THEN [raised |-> TRUE, output |-> NoValue]
    ELSE IF stage.operation = "map"
    THEN LET r == SequentialLoop(
                     [k \in 1..Len(ev.v) |->
                        [item |-> ev.v[k], ok |-> ev.v[k] # stage.fail_item]],
                     stage.policy, 1, <<>>)
         IN [raised |-> r.raised,
             output |-> IF r.raised THEN NoValue ELSE ListValue(r.results)]
    ELSE IF stage.operation = "filter"
    THEN LET r == FilterLoop(
                     [k \in 1..Len(ev.v) |->
                        [item |-> ev.v[k],
                         condition |-> IF ev.v[k] = stage.fail_item THEN Raises
                                       ELSE IF ev.v[k] = Null THEN "0"
                                       ELSE "True"]],
                     stage.policy, 1, <<>>)
         IN [raised |-> r.raises,
             output |-> IF r.raises THEN NoValue ELSE ListValue(r.results)]
    ELSE LET r == ReduceLoop(ev.v, stage.steps, 1, <<>>)
         IN [raised |-> r.raised,
             output |-> IF r.raised THEN NoValue
                        ELSE [kind |-> stage.yields, v |-> r.acc]]

\* lines 88-107: one stage of the pipeline on the running value
run_stage(stage, value) ==
    IF stage.operation \notin {"map", "filter", "reduce"}
    THEN [raised |-> TRUE, output |-> NoValue, processed |-> FALSE]
    ELSE LET r == process(stage, value)
         IN [raised |-> r.raised, output |-> r.output, processed |-> TRUE]

next_stage_input_Original(original, sub_output) == original

\* line 107: current_input = sub_result.output
next_stage_input(original, sub_output) == sub_output

PipelineInit ==
    /\ pipeline \in UNION {[1..n -> StageSpecs] : n \in 0..MaxStages}
    /\ pipe_input \in UNION {[1..n -> Items] : n \in 0..MaxItems}
    /\ current_input = ListValue(pipe_input)
    /\ pipe_pc = "loop"
    /\ pipe_idx = 1
    /\ stages_run = <<>>
    /\ pipe_result = NoValue
    /\ pipe_error = "none"

PipelineIdle ==
    /\ pipeline = <<>>
    /\ pipe_input = <<>>
    /\ current_input = NoValue
    /\ pipe_pc = "idle"
    /\ pipe_idx = 1
    /\ stages_run = <<>>
    /\ pipe_result = NoValue
    /\ pipe_error = "none"

\* lines 87-107: the loop body for the stage at pipe_idx; an exception of
\* the stage leaves the loop and is wrapped by process (lines 67-73)
PipelineStage ==
    /\ pipe_pc = "loop"
    /\ pipe_idx <= Len(pipeline)
    /\ LET r == run_stage(pipeline[pipe_idx], current_input) IN
       /\ stages_run' = IF r.processed
                        THEN Append(stages_run,
                                    [idx |-> pipe_idx, input |-> current_input])
                        ELSE stages_run
       /\ IF r.raised
          THEN /\ pipe_pc' = "raised"
               /\ pipe_error' = "StepExecutionError"
               /\ UNCHANGED <<pipe_idx, current_input>>
          ELSE /\ current_input' = next_stage_input(ListValue(pipe_input), r.output)
               /\ pipe_idx' = pipe_idx + 1
               /\ UNCHANGED <<pipe_pc, pipe_error>>
    /\ UNCHANGED <<pipeline, pipe_input, pipe_result>>
    /\ UNCHANGED pipe_others

\* line 108
PipelineReturn ==
    /\ pipe_pc = "loop"
    /\ pipe_idx > Len(pipeline)
    /\ pipe_pc' = "returned"
    /\ pipe_result' = current_input
    /\ UNCHANGED <<pipeline, pipe_input, current_input, pipe_idx, stages_run,
                   pipe_error>>
    /\ UNCHANGED pipe_others

PipelineNext ==
    \/ PipelineStage
    \/ PipelineReturn

\* ------------------------------------- WorkflowLoader._parse_workflow_data
\* step ids of the document and the nested step lists a step may carry
LoadIds == {"a", "b"}
NestedIdLists == {<<"a">>, <<"a", "b">>, <<"a", "a">>}

\* the step objects of a document: an ai_call, a step of an unknown type, a
\* map or reduce with its steps, a conditional with if_true and possibly
\* if_false (or one steps list per branch); nested steps are ai_call steps
\* given by their ids
StepData ==
    [id : LoadIds, type : {"ai_call", "unknown"}, lists : {<<>>}]
    \cup [id : LoadIds, type : {"collection"},
          lists : {<<l>> : l \in NestedIdLists}]
    \cup [id : LoadIds, type : {"conditional"},
          lists : {<<l>> : l \in NestedIdLists}
                  \cup {<<l1, l2>> : l1 \in NestedIdLists, l2 \in NestedIdLists}]

\* Workflow.validate_step_ids_unique: len(step_ids) == len(set(step_ids))
\* over the ids of the steps of the list it is given
ids_unique(step_list) ==
    \A j, k \in DOMAIN step_list : j # k => step_list[j].id # step_list[k].id

\* _transform_steps lines 116-136 for one step object: an unknown type
\* raises ValueError; the other types construct the step, a conditional
\* after _transform_steps of each nested list (_create_conditional_step),
\* whose ai_call steps are constructed without any check across steps
transform_step(step_data) ==
    IF step_data.type \notin {"ai_call", "text_process", "collection", "conditional"}
    THEN [raised |-> TRUE, step |-> step_data]
    ELSE [raised |-> FALSE, step |-> step_data]

LoaderInit ==
    /\ steps_data \in UNION {[1..n -> StepData] : n \in 0..MaxLoadSteps}
    /\ load_pc = "transform"
    /\ load_i = 1
    /\ transformed_steps = <<>>
    /\ load_error = "none"

LoaderIdle ==
    /\ steps_data = <<>>
    /\ load_pc = "idle"
    /\ load_i = 1
    /\ transformed_steps = <<>>
    /\ load_error = "none"

\* _transform_steps lines 116-136: one iteration of the loop over the
\* top-level steps_data; a ValueError leaves _parse_workflow_data as a
\* WorkflowParseError (lines 102-103)
TransformStep ==
    /\ load_pc = "transform"
    /\ load_i <= Len(steps_data)
    /\ LET r == transform_step(steps_data[load_i]) IN
       IF r.raised
       THEN /\ load_pc' = "raised"
            /\ load_error' = "WorkflowParseError"
            /\ UNCHANGED <<load_i, transformed_steps>>
       ELSE /\ transformed_steps' = Append(transformed_steps, r.step)
            /\ load_i' = load_i + 1
            /\ UNCHANGED <<load_pc, load_error>>
    /\ UNCHANGED steps_data
    /\ UNCHANGED load_others

\* _parse_workflow_data lines 96-101: Workflow(**data) validates steps
\* (min_length = 1, then validate_step_ids_unique); a ValidationError is
\* raised as WorkflowParseError
ConstructWorkflow ==
    /\ load_pc = "transform"
    /\ load_i > Len(steps_data)
    /\ IF Len(transformed_steps) >= 1 /\ ids_unique(transformed_steps)
       THEN /\ load_pc' = "loaded"
            /\ load_error' = load_error
       ELSE /\ load_pc' = "raised"
            /\ load_error' = "WorkflowParseError"
    /\ UNCHANGED <<steps_data, load_i, transformed_steps>>
    /\ UNCHANGED load_others

LoaderNext ==
    \/ TransformStep
    \/ ConstructWorkflow

\* --------------------------------------------- ConditionalStep construction
BranchNameValues == {"x", "y"}
\* ConditionalBranch keyword arguments (steps are left out: no validator
\* of the conditional reads them)
BranchData == [name : BranchNameValues, default : BOOLEAN, condition : {"", "c"}]
NoBranches == <<>>

\* the keyword arguments of a ConditionalStep: condition and if_true are
\* None or given, conditions is None (has_conditions FALSE) or a list
ConditionalData ==
    [condition : {PyNone, "c"}, if_true : {PyNone, "steps"},
     has_conditions : {FALSE}, conditions : {NoBranches}]
    \cup [condition : {PyNone, "c"}, if_true : {PyNone, "steps"},
          has_conditions : {TRUE},
          conditions : UNION {[1..n -> BranchData] : n \in 0..MaxBranches}]

\* ConditionalBranch.model_post_init lines 29-32
branch_post_init(branch) ==
    IF ~branch.default /\ branch.condition = "" THEN "ValueError" ELSE "none"

\* validate_simple_condition lines 88-94: info.data holds the fields
\* validated before condition, and conditions is declared after it
validate_simple_condition(v, info_data_fields, data) ==
    IF v # PyNone /\ "conditions" \in info_data_fields /\ data.has_conditions
    THEN "ValueError" ELSE "none"

\* validate_conditions_structure lines 68-86; not called for None
validate_conditions_structure(data) ==
    IF ~data.has_conditions THEN "none"
    ELSE IF \E j, k \in DOMAIN data.conditions :
               j # k /\ data.conditions[j].name = data.conditions[k].name
    THEN "ValueError"
    ELSE IF Cardinality({j \in DOMAIN data.conditions : data.conditions[j].default}) > 1
    THEN "ValueError"
    ELSE "none"

\* the field validation of ConditionalStep in declaration order: condition
\* (line 51), conditions (line 60) with the construction of each branch
validate_fields(data) ==
    IF validate_simple_condition(data.condition, {"id", "type"}, data) # "none"
    THEN "ValidationError"
    ELSE IF \E j \in DOMAIN data.conditions : branch_post_init(data.conditions[j]) # "none"
    THEN "ValidationError"
    ELSE IF validate_conditions_structure(data) # "none"
    THEN "ValidationError"
    ELSE "none"

model_post_init_OnlyNeither(data) ==
    LET has_basic == data.condition # PyNone
        has_multi == data.has_conditions
    IN  IF ~has_basic /\ ~has_multi THEN "ValueError"
        ELSE IF has_basic /\ data.if_true = PyNone THEN "ValueError"
        ELSE "none"

\* ConditionalStep.model_post_init lines 96-109
model_post_init(data) ==
    LET has_basic == data.condition # PyNone
        has_multi == data.has_conditions
    IN  IF ~has_basic /\ ~has_multi THEN "ValueError"
        ELSE IF has_basic /\ has_multi THEN "ValueError"
        ELSE IF has_basic /\ data.if_true = PyNone THEN "ValueError"
        ELSE "none"

CondModelInit ==
    /\ cm_data \in ConditionalData
    /\ cm_pc = "fields"
    /\ cm_error = "none"

CondModelIdle ==
    /\ cm_data = [condition |-> PyNone, if_true |-> PyNone,
                  has_conditions |-> FALSE, conditions |-> NoBranches]
    /\ cm_pc = "idle"
    /\ cm_error = "none"

\* the field validators run first; a failure raises ValidationError and
\* model_post_init is not reached
ValidateFields ==
    /\ cm_pc = "fields"
    /\ cm_error' = validate_fields(cm_data)
    /\ cm_pc' = IF cm_error' = "none" THEN "post_init" ELSE "raised"
    /\ UNCHANGED cm_data
    /\ UNCHANGED cm_others

\* lines 96-109: the step exists when model_post_init returns
ModelPostInit ==
    /\ cm_pc = "post_init"
    /\ cm_error' = model_post_init(cm_data)
    /\ cm_pc' = IF cm_error' = "none" THEN "constructed" ELSE "raised"
    /\ UNCHANGED cm_data
    /\ UNCHANGED cm_others

CondModelNext ==
    \/ ValidateFields
    \/ ModelPostInit

\* ----------------------------------- execute_workflow under an observer
EventTypes == {"workflow_start", "workflow_step", "workflow_complete"}
\* progress_callback is None, or a callable that raises on some events
Observers ==
    {[set |-> FALSE, raises_on |-> {}]}
    \cup [set : {TRUE}, raises_on : SUBSET EventTypes]
\* the exception of execute_step for a failing step, and of the callback
StepFailure == [cls |-> "ValueError", step_id |-> 0, workflow_name |-> NoName,
                original |-> "none"]
CallbackError == [cls |-> "CallbackError", step_id |-> 0, workflow_name |-> NoName,
                  original |-> "none"]

\* if self.progress_callback: self.progress_callback(event, ...): TRUE
\* when the call raises; nothing guards the call
callback_raises(obs, event) == obs.set /\ event \in obs.raises_on

\* lines 60-90 for step i: the new results, step_outputs, error and position
execute_and_handle(steps, outcomes, i, res, outs) ==
    IF outcomes[i] = "returns"
    THEN [results |-> set_step_output(res, i, i),
          step_outputs |-> set_step_output(outs, i, i),
          error |-> NoError, next_pc |-> "loop"]
    ELSE LET h == HandleOnError(steps[i]) IN
         [results |-> IF h.records_null THEN set_step_output(res, i, Null) ELSE res,
          step_outputs |-> IF h.records_null THEN set_step_output(outs, i, Null)
                           ELSE outs,
          error |-> IF h.raises THEN ClassifyError(StepFailure, i) ELSE NoError,
          next_pc |-> h.next_pc]

\* execute_workflow with progress_callback None, from step i on
RECURSIVE RunWithoutObserver(_, _, _, _, _, _)
RunWithoutObserver(steps, outcomes, i, res, outs, ran) ==
    IF i > Len(steps)
    THEN [pc |-> "returned", results |-> res, step_outputs |-> outs,
          executed |-> ran, error |-> NoError]
    ELSE LET r == execute_and_handle(steps, outcomes, i, res, outs) IN
         IF r.next_pc = "loop"
         THEN RunWithoutObserver(steps, outcomes, i + 1, r.results, r.step_outputs,
                                 Append(ran, i))
         ELSE [pc |-> IF r.next_pc = "raised" THEN "raised" ELSE "returned",
               results |-> r.results, step_outputs |-> r.step_outputs,
               executed |-> Append(ran, i), error |-> r.error]

ObserverInit ==
    /\ \E n \in 1..MaxSteps :
          /\ obs_steps \in [1..n -> OnErrorValues]
          /\ obs_outcomes \in [1..n -> {"returns", "raises"}]
    /\ observer \in Observers
    /\ obs_pc = "start"
    /\ obs_i = 1
    /\ obs_results = EmptyDict
    /\ obs_outputs = EmptyDict
    /\ obs_executed = <<>>
    /\ obs_error = NoError
    /\ obs_events = <<>>

ObserverIdle ==
    /\ obs_steps = <<>>
    /\ obs_outcomes = <<>>
    /\ observer = [set |-> FALSE, raises_on |-> {}]
    /\ obs_pc = "idle"
    /\ obs_i = 1
    /\ obs_results = EmptyDict
    /\ obs_outputs = EmptyDict
    /\ obs_executed = <<>>
    /\ obs_error = NoError
    /\ obs_events = <<>>

\* a notification at position pc that goes on to next_pc when the callback
\* returns; an exception of the callback leaves execute_workflow
ObsNotify(event, arg, next_pc) ==
    /\ obs_events' = IF observer.set THEN Append(obs_events, <<event, arg>>)
                     ELSE obs_events
    /\ IF callback_raises(observer, event)
       THEN obs_pc' = "raised" /\ obs_error' = CallbackError
       ELSE obs_pc' = next_pc /\ obs_error' = obs_error

\* lines 45-51
ObsWorkflowStart ==
    /\ obs_pc = "start"
    /\ ObsNotify("workflow_start", Len(obs_steps), "loop")
    /\ UNCHANGED <<obs_steps, obs_outcomes, observer, obs_i, obs_results,
                   obs_outputs, obs_executed>>
    /\ UNCHANGED obs_others

\* lines 53-58
ObsStepStart ==
    /\ obs_pc = "loop"
    /\ obs_i <= Len(obs_steps)
    /\ ObsNotify("workflow_step", obs_i, "exec")
    /\ UNCHANGED <<obs_steps, obs_outcomes, observer, obs_i, obs_results,
                   obs_outputs, obs_executed>>
    /\ UNCHANGED obs_others

\* lines 60-90
ObsExecuteStep ==
    /\ obs_pc = "exec"
    /\ LET r == execute_and_handle(obs_steps, obs_outcomes, obs_i, obs_results,
                                   obs_outputs) IN
       /\ obs_results' = r.results
       /\ obs_outputs' = r.step_outputs
       /\ obs_error' = r.error
       /\ obs_pc' = r.next_pc
       /\ obs_i' = IF r.next_pc = "loop" THEN obs_i + 1 ELSE obs_i
    /\ obs_executed' = Append(obs_executed, obs_i)
    /\ UNCHANGED <<obs_steps, obs_outcomes, observer, obs_events>>
    /\ UNCHANGED obs_others

\* the for loop is exhausted
ObsLoopExit ==
    /\ obs_pc = "loop"
    /\ obs_i > Len(obs_steps)
    /\ obs_pc' = "complete"
    /\ UNCHANGED <<obs_steps, obs_outcomes, observer, obs_i, obs_results,
                   obs_outputs, obs_executed, obs_error, obs_events>>
    /\ UNCHANGED obs_others

\* lines 92-96
ObsWorkflowComplete ==
    /\ obs_pc = "complete"
    /\ ObsNotify("workflow_complete", 0, "returned")
    /\ UNCHANGED <<obs_steps, obs_outcomes, observer, obs_i, obs_results,
                   obs_outputs, obs_executed>>
    /\ UNCHANGED obs_others

ObserverNext ==
    \/ ObsWorkflowStart
    \/ ObsStepStart
    \/ ObsExecuteStep
    \/ ObsLoopExit
    \/ ObsWorkflowComplete

\* ------------------------------------------- UsageSummary.add_step_usage
UsageStepIds == {"s1", "s2"}
\* the usage dict of a response: empty (or None), with prompt and completion
\* counts only, or with a total_tokens of the provider's as well
UsageDicts ==
    {EmptyDict,
     [prompt_tokens |-> 1, completion_tokens |-> 2],
     [prompt_tokens |-> 2, completion_tokens |-> 1, total_tokens |-> 4]}
\* cost_usd of a response, NoCost for None
CostValues == {NoCost, 0, 3}

\* dict.get(key, default)
dict_get(d, key, default) == IF key \in DOMAIN d THEN d[key] ELSE default

\* cost_usd or 0.0
or_zero(cost_usd) == IF cost_usd = NoCost THEN 0 ELSE cost_usd

\* the dataclass defaults of UsageSummary, lines 17-22
NewUsageSummary ==
    [total_api_calls |-> 0, total_prompt_tokens |-> 0,
     total_completion_tokens |-> 0, total_tokens |-> 0, total_cost_usd |-> 0,
     step_usage |-> EmptyDict]

\* UsageSummary.add_step_usage lines 24-57: the calls and the cost are added
\* to the totals, then the token counts unless usage is falsy, and the
\* entry of step_id is assigned
summary_add_step_usage(summary, step_id, usage, cost_usd) ==
    LET prompt_tokens == dict_get(usage, "prompt_tokens", 0)
        completion_tokens == dict_get(usage, "completion_tokens", 0)
        total_tokens == dict_get(usage, "total_tokens",
                                 prompt_tokens + completion_tokens)
    IN
    IF DOMAIN usage = {}
    THEN [summary EXCEPT
            !.total_api_calls = add_step_usage(summary.total_api_calls),
            !.total_cost_usd = summary.total_cost_usd + or_zero(cost_usd),
            !.step_usage = set_step_output(summary.step_usage, step_id,
                              [prompt_tokens |-> 0, completion_tokens |-> 0,
                               total_tokens |-> 0, cost_usd |-> or_zero(cost_usd)])]
    ELSE [summary EXCEPT
            !.total_api_calls = add_step_usage(summary.total_api_calls),
            !.total_cost_usd = summary.total_cost_usd + or_zero(cost_usd),
            !.total_prompt_tokens = summary.total_prompt_tokens + prompt_tokens,
            !.total_completion_tokens =
                summary.total_completion_tokens + completion_tokens,
            !.total_tokens = summary.total_tokens + total_tokens,
            !.step_usage = set_step_output(summary.step_usage, step_id,
                              [prompt_tokens |-> prompt_tokens,
                               completion_tokens |-> completion_tokens,
                               total_tokens |-> total_tokens,
                               cost_usd |-> or_zero(cost_usd)])]

UsageInit ==
    /\ usage_summary = NewUsageSummary
    /\ usage_pc = "open"

UsageIdle ==
    /\ usage_summary = NewUsageSummary
    /\ usage_pc = "idle"

\* ExecutionContext.add_step_usage lines 115-119, called by a model-call
\* step after each provider call (execution_engine.py line 268)
ContextAddStepUsage ==
    /\ usage_pc = "open"
    /\ usage_summary.total_api_calls < MaxUsageCalls
    /\ \E step_id \in UsageStepIds, usage \in UsageDicts, cost_usd \in CostValues :
          usage_summary' = summary_add_step_usage(usage_summary, step_id, usage, cost_usd)
    /\ UNCHANGED usage_pc
    /\ UNCHANGED usage_others

UsageNext == ContextAddStepUsage

\* ---------------------------------------------------------- specifications
\* the variables of the components added after the conditional while
\* another component runs
LaterIdle == PipelineIdle /\ LoaderIdle /\ CondModelIdle /\ ObserverIdle /\ UsageIdle

OthersIdle == FilterIdle /\ ReduceIdle /\ LaterIdle

Init ==
    DriverInit /\ MapIdle /\ AIIdle /\ ValidationIdle /\ CondIdle /\ OthersIdle

Next == DriverNext

Spec == Init /\ [][Next]_vars

MapSpecInit ==
    MapInit /\ DriverIdle /\ AIIdle /\ ValidationIdle /\ CondIdle /\ OthersIdle

SpecMap == MapSpecInit /\ [][MapNext]_vars

AISpecInit ==
    AIInit /\ DriverIdle /\ MapIdle /\ ValidationIdle /\ CondIdle /\ OthersIdle

SpecAI == AISpecInit /\ [][AINext]_vars

ValidationSpecInit ==
    ValidationInit /\ DriverIdle /\ MapIdle /\ AIIdle /\ CondIdle /\ OthersIdle

SpecValidation == ValidationSpecInit /\ [][ValidationNext]_vars

CondSpecInit ==
    CondInit /\ DriverIdle /\ MapIdle /\ AIIdle /\ ValidationIdle /\ OthersIdle

SpecCond == CondSpecInit /\ [][CondNext]_vars

CoreIdle == DriverIdle /\ MapIdle /\ AIIdle /\ ValidationIdle /\ CondIdle

FilterSpecInit == FilterInit /\ CoreIdle /\ ReduceIdle /\ LaterIdle

SpecFilter == FilterSpecInit /\ [][FilterNext]_vars

ReduceSpecInit == ReduceInit /\ CoreIdle /\ FilterIdle /\ LaterIdle

SpecReduce == ReduceSpecInit /\ [][ReduceNext]_vars

\* a collection step that is a map or a reduce
CollectionSpecInit == MapSpecInit \/ ReduceSpecInit

CollectionNext == MapNext \/ ReduceNext

SpecCollection == CollectionSpecInit /\ [][CollectionNext]_vars

PipelineSpecInit == PipelineInit /\ CoreIdle /\ FilterIdle /\ ReduceIdle /\ LoaderIdle /\ CondModelIdle /\ ObserverIdle /\ UsageIdle

SpecPipeline == PipelineSpecInit /\ [][PipelineNext]_vars

LoaderSpecInit ==
    LoaderInit /\ CoreIdle /\ FilterIdle /\ ReduceIdle /\ PipelineIdle /\ CondModelIdle /\ ObserverIdle /\ UsageIdle

SpecLoader == LoaderSpecInit /\ [][LoaderNext]_vars

CondModelSpecInit ==
    CondModelInit /\ CoreIdle /\ FilterIdle /\ ReduceIdle /\ PipelineIdle /\ LoaderIdle /\ ObserverIdle /\ UsageIdle

SpecCondModel == CondModelSpecInit /\ [][CondModelNext]_vars

ObserverSpecInit ==
    ObserverInit /\ CoreIdle /\ FilterIdle /\ ReduceIdle /\ PipelineIdle /\ LoaderIdle /\ CondModelIdle /\ UsageIdle

SpecObserver == ObserverSpecInit /\ [][ObserverNext]_vars

UsageSpecInit ==
    UsageInit /\ CoreIdle /\ FilterIdle /\ ReduceIdle /\ PipelineIdle /\ LoaderIdle /\ CondModelIdle /\ ObserverIdle

SpecUsage == UsageSpecInit /\ [][UsageNext]_vars

\* ------------------------------------------------ properties: the driver
Last(seq) == seq[Len(seq)]
RunEnded == drv_pc \in {"returned", "raised"}
FailedWith(policy) == {i \in drv_failed : wf_steps[i] = policy}

\* C1: when a top-level step with on_error = stop fails, the run has ended by
\* raising a StepExecutionError (the step's own error if it is one, otherwise
\* a wrapper with the step id and the workflow name), the failing step is the
\* last one started, and neither results nor the context hold an output for it.
C1_StopRaises ==
    \A i \in FailedWith("stop") :
        /\ drv_pc = "raised"
        /\ drv_error.cls = "StepExecutionError"
        /\ drv_exc.cls = "StepExecutionError" => drv_error = drv_exc
        /\ drv_exc.cls # "StepExecutionError" =>
              /\ drv_error.step_id = i
              /\ drv_error.workflow_name = WorkflowName
              /\ drv_error.original = drv_exc.cls
        /\ Last(drv_started) = i
        /\ \A k \in 1..Len(drv_started) : drv_started[k] <= i
        /\ i \notin DOMAIN results
        /\ i \notin DOMAIN step_outputs

\* a foreign exception of a stop step was wrapped while a later step exists
C1_Witness ==
    /\ drv_pc = "raised"
    /\ drv_exc.cls = "TemplateError"
    /\ FailedWith("stop") = {2}
    /\ Len(wf_steps) = 3

InFlight == {i \in DOMAIN task_state : task_state[i] = "running"}
FailingItems == {i \in DOMAIN input_list : ~input_list[i].ok}
MapEnded == map_pc \in {"returned", "raised"}
\* the value the map owes for position i under skip
SkipValue(i) == IF input_list[i].ok THEN ItemResult(input_list[i].item) ELSE Null

\* C4: when every item succeeds or the policy is skip, a bounded-parallel map
\* (max_parallel > 1) returns, whatever the order in which its item tasks were
\* admitted and finished, exactly the list the sequential loop computes for
\* the same input, and the sequential loop does not raise there.
C4_ParallelEqualsSequential ==
    (/\ map_pc = "returned"
     /\ UsesParallel(concurrency)
     /\ (on_item_failure = "skip" \/ FailingItems = {}))
    => LET seq == SequentialLoop(input_list, on_item_failure, 1, <<>>)
       IN  /\ ~seq.raised
           /\ map_results = seq.results

\* a parallel skip map returned after admitting its items out of input order
C4_Witness ==
    /\ map_pc = "returned"
    /\ UsesParallel(concurrency)
    /\ on_item_failure = "skip"
    /\ Len(input_list) = 3
    /\ FailingItems = {1}
    /\ input_list[2].item # input_list[3].item
    /\ map_started = <<3, 1, 2>>

\* C5: at every moment of a bounded-parallel map the number of item
\* executions admitted by the semaphore and not yet finished is at most
\* max_parallel, and the semaphore never goes negative.
C5_InFlightBounded ==
    /\ semaphore >= 0
    /\ UsesParallel(concurrency) => Cardinality(InFlight) <= concurrency[1]
    /\ ~UsesParallel(concurrency) => InFlight = {}

\* the gate is full while another item task is still waiting to be admitted
C5_Witness ==
    /\ map_pc = "par"
    /\ concurrency = <<2>>
    /\ Cardinality(InFlight) = 2
    /\ \E i \in DOMAIN task_state : task_state[i] = "created"

\* C6: in a bounded-parallel map with on_item_failure = stop, once the item
\* tasks have settled, a failed item makes the map fail: the call ends by
\* raising instead of returning a result list.
C6_ParallelStopPropagates ==
    (/\ MapEnded
     /\ UsesParallel(concurrency)
     /\ on_item_failure = "stop"
     /\ FailingItems # {})
    => /\ map_pc = "raised"
       /\ map_error = "StepExecutionError"

\* C7: a map with on_item_failure = skip never raises, and the list it
\* returns, in sequential and in parallel mode, has the length of the input
\* with item i's result at position i when its nested steps succeeded and
\* null when they failed.
C7_SkipPreservesCardinality ==
    on_item_failure = "skip" =>
        /\ map_pc # "raised"
        /\ map_pc = "returned" =>
              /\ Len(map_results) = Len(input_list)
              /\ \A i \in 1..Len(input_list) : map_results[i] = SkipValue(i)

\* a parallel skip map over [a, fail, c] returned
C7_Witness ==
    /\ map_pc = "returned"
    /\ on_item_failure = "skip"
    /\ UsesParallel(concurrency)
    /\ Len(input_list) = 3
    /\ FailingItems = {2}
    /\ map_results[2] = Null
    /\ map_results[1] # Null /\ map_results[3] # Null

\* C8: in a sequential map with on_item_failure = stop the first failing item
\* aborts the map: the call raises, that item is the last one started, and a
\* result list is returned only when no item fails.
C8_SequentialStopAborts ==
    (~UsesParallel(concurrency) /\ on_item_failure = "stop") =>
        /\ \A i \in FailingItems :
              (\E k \in 1..Len(map_started) : map_started[k] = i) =>
                  /\ map_pc = "raised"
                  /\ map_error = "StepExecutionError"
                  /\ Last(map_started) = i
                  /\ Len(map_started) = i
                  /\ \A j \in 1..(i - 1) : input_list[j].ok
        /\ map_pc = "returned" => FailingItems = {}
        /\ MapEnded /\ FailingItems # {} => map_pc = "raised"

\* a sequential stop map raised at its second item with a third one unstarted
C8_Witness ==
    /\ map_pc = "raised"
    /\ concurrency = <<1>>
    /\ on_item_failure = "stop"
    /\ Len(input_list) = 3
    /\ FailingItems = {2, 3}
    /\ map_started = <<1, 2>>

\* -------------------------------------------- properties: the completion
RECURSIVE ConcatContents(_)
ConcatContents(rounds) ==
    IF rounds = <<>> THEN <<>>
    ELSE ConcatContents(SubSeq(rounds, 1, Len(rounds) - 1)) \o Last(rounds).content

RECURSIVE SumUsage(_, _)
SumUsage(rounds, key) ==
    IF rounds = <<>> THEN 0
    ELSE SumUsage(SubSeq(rounds, 1, Len(rounds) - 1), key) + Get(Last(rounds).usage, key)

RECURSIVE SumCost(_)
SumCost(rounds) ==
    IF rounds = <<>> THEN 0
    ELSE SumCost(SubSeq(rounds, 1, Len(rounds) - 1)) + Last(rounds).cost

\* cost_usd as its consumer reads it: "cost_usd or 0.0" (UsageSummary.add_step_usage)
CostOrZero(cost_usd) == IF cost_usd = NoCost THEN 0 ELSE cost_usd

\* C9: when k <= max_auto_retry_attempts rounds ended truncated and the next
\* round ended with a finish reason that is not a truncation, the invocation
\* has returned; the returned content is the concatenation of the k + 1
\* rounds' contents in round order, total_api_calls is k + 1 however many
\* provider calls failed in between, and every usage field and the cost are
\* the sums over the k + 1 rounds (a zero total is reported as None).
C9_ContinuationAccumulates ==
    (/\ ai_rounds # <<>>
     /\ Len(ai_rounds) - 1 <= max_auto_retry_attempts
     /\ \A r \in 1..(Len(ai_rounds) - 1) : ai_rounds[r].finish_reason \in TruncationReasons
     /\ Last(ai_rounds).finish_reason \notin TruncationReasons)
    => /\ ai_pc = "returned"
       /\ ai_response.content = ConcatContents(ai_rounds)
       /\ ai_response.finish_reason = Last(ai_rounds).finish_reason
       /\ total_api_calls = Len(ai_rounds)
       /\ \A key \in UsageKeys : Get(ai_response.usage, key) = SumUsage(ai_rounds, key)
       /\ CostOrZero(ai_response.cost_usd) = SumCost(ai_rounds)

\* two truncated rounds and a final one, with a failed provider call in between
C9_Witness ==
    /\ ai_pc = "returned"
    /\ max_auto_retry_attempts = 2
    /\ Len(ai_rounds) = 3
    /\ ai_rounds[1].finish_reason = "length"
    /\ ai_rounds[2].finish_reason = "max_tokens"
    /\ ai_rounds[3].finish_reason = "stop"
    /\ ai_response.content = <<"a", "b", "a">>
    /\ \A r \in 1..3 : ai_rounds[r].usage # EmptyDict /\ ai_rounds[r].cost = 1
    /\ ai_calls > 3

\* C10: when continuation is enabled and the last round the budget allows
\* ends truncated, the invocation returns the accumulated content with
\* finish_reason max_auto_retries_reached.
C10_BudgetExhaustedTagged ==
    (/\ max_auto_retry_attempts > 0
     /\ Len(ai_rounds) = max_auto_retry_attempts + 1
     /\ Last(ai_rounds).finish_reason \in TruncationReasons)
    => /\ ai_pc = "returned"
       /\ ai_response.content = accumulated_content
       /\ ai_response.finish_reason = "max_auto_retries_reached"

AllInvalid == \A k \in 1..Len(val_results) : ~val_results[k].is_valid

\* C12: with max_retries = R the provider is asked for a completion at
\* most R + 1 times; a valid output ends the loop at once with a value
\* returned, so only the last validated output can be valid; and when all
\* R + 1 outputs are invalid the loop raises a ValidationError carrying the
\* last attempt's raw output and that attempt's error list, and nothing is
\* returned.
C12_ValidationLoop ==
    /\ Len(prompts_sent) <= validation_max_retries + 1
    /\ Len(val_results) <= Len(prompts_sent)
    /\ \A k \in 1..Len(val_results) :
          val_results[k].is_valid =>
             /\ k = Len(val_results)
             /\ val_pc = "returned"
             /\ val_return \in {val_results[k].validated_output,
                                val_results[k].original_output}
             /\ val_return # NoOutput
             /\ val_error = NoValError
    /\ val_pc = "returned" => val_results # <<>> /\ Last(val_results).is_valid
    /\ Len(val_results) = validation_max_retries + 1 /\ AllInvalid =>
          /\ val_pc = "raised"
          /\ val_error = MakeValidationError(Last(val_results).original_output,
                                             Last(val_results).errors)
          /\ val_return = NoOutput

C12_Witness ==
    /\ val_pc = "raised"
    /\ validation_max_retries = 2
    /\ Len(val_results) = 3
    /\ val_results[1].original_output = "y"
    /\ val_results[3].original_output = "x"
    /\ val_error.cls = "ValidationError"
    /\ val_error.original_output = "x"
    /\ val_error.validation_errors = <<"Invalid JSON format">>

\* C13: every prompt sent after a failed validation is the original prompt
\* followed by exactly one remediation suffix, the one built from the most
\* recent failed validation result; no earlier suffix and no wrapper
\* instruction remains, so the prompt has two parts however many retries
\* were made.
C13_RetryPromptReplaced ==
    /\ Len(results_before) = Len(prompts_sent)
    /\ \A k \in 1..Len(prompts_sent) :
          IF results_before[k] = 0
          THEN prompts_sent[k] = initial_prompt(force_json_output)
          ELSE /\ results_before[k] <= Len(val_results)
               /\ ~val_results[results_before[k]].is_valid
               /\ prompts_sent[k] =
                     <<OriginalPart,
                       [kind |-> "retry",
                        errors |-> val_results[results_before[k]].errors]>>

C13_Witness ==
    /\ Len(prompts_sent) = 3
    /\ force_json_output
    /\ results_before = <<0, 1, 2>>
    /\ val_results[1].errors = <<"Invalid JSON format">>
    /\ val_results[2].errors = <<"Schema validation failed">>
    /\ prompts_sent[3] =
          <<OriginalPart, [kind |-> "retry", errors |-> <<"Schema validation failed">>]>>

\* ----------------------------------------- properties: the conditional
CondEnded == cond_pc \in {"returned", "raised"}
BranchIdx == 1..Len(conditions)
ConditionIsTrue(k) ==
    /\ ~conditions[k].default
    /\ conditions[k].condition # Raises
    /\ coerce_condition(conditions[k].condition) = PyTrue
Winners == {k \in BranchIdx : conditions[k].default \/ ConditionIsTrue(k)}
FirstWinner == CHOOSE k \in Winners : \A j \in Winners : k <= j
NoConditionRaises ==
    \A k \in BranchIdx : conditions[k].default \/ conditions[k].condition # Raises
WasConsidered(k) == \E j \in 1..Len(considered) : considered[j] = k
WasEvaluated(k) == \E j \in 1..Len(evaluated) : evaluated[j] = k
StepsOf(name) ==
    IF name = "if_true" THEN if_true
    ELSE IF name = "if_false" THEN if_false
    ELSE conditions[CHOOSE k \in BranchIdx : BranchNames[k] = name].steps
NestedFailed ==
    \E j \in 1..Len(executed) : execute_step_list(StepsOf(executed[j])).raised

\* C14: in a multi-branch conditional whose conditions all evaluate
\* without error, the branches are visited in declared order, no condition
\* declared after the first default-or-true branch is evaluated, and the
\* result returned names that branch as executed_branch.
C14_FirstMatchWins ==
    cond_form = "multi" /\ NoConditionRaises /\ Winners # {} =>
       /\ \A j \in 1..Len(considered) : considered[j] = j
       /\ \A k \in BranchIdx : WasEvaluated(k) => k <= FirstWinner
       /\ cond_pc = "returned" =>
             cond_result.executed_branch = BranchNames[FirstWinner]

\* C15: a multi-branch conditional without a default branch in which no
\* condition evaluates true returns condition_result = None and
\* executed_branch = None.
C15_NoMatchIsNull ==
    /\ cond_form = "multi"
    /\ cond_pc = "returned"
    /\ \A k \in BranchIdx : ~conditions[k].default /\ ~ConditionIsTrue(k)
    => /\ cond_result.condition_result = PyNone
       /\ cond_result.executed_branch = PyNone

\* C16: in both forms, when a nested step of the executed branch fails the
\* conditional ends as its on_error says: stop lets the nested error out;
\* continue and skip_remaining either return a result whose output is None
\* or hand the nested error to execute_workflow, which records None for
\* the step under the same on_error.
C16_NestedFailureFollowsOnError ==
    CondEnded /\ NestedFailed =>
       IF cond_on_error = "stop"
       THEN cond_pc = "raised" /\ cond_error.original = "nested"
       ELSE \/ cond_pc = "returned" /\ cond_result.output = PyNone
            \/ cond_pc = "raised" /\ cond_error.original = "nested"

\* C17: in the basic form, once evaluating the condition has failed:
\* stop raises TemplateError with no branch run; continue takes the
\* condition as false and runs if_false when it has steps, nothing
\* otherwise; skip_remaining returns at once the result with output,
\* condition_result and executed_branch all None and no branch run.
C17_BasicConditionError ==
    cond_form = "basic" /\ condition = Raises /\ cond_pc # "evaluate" =>
       /\ on_condition_error = "stop" =>
             /\ cond_pc = "raised"
             /\ cond_error = [cls |-> "TemplateError", original |-> "condition"]
             /\ executed = <<>>
       /\ on_condition_error = "continue" =>
             /\ condition_result = PyFalse
             /\ cond_pc = "branch" \/ CondEnded
             /\ cond_pc = "branch" => executed = <<>>
             /\ CondEnded =>
                   executed = IF if_false # <<>> THEN <<"if_false">> ELSE <<>>
             /\ cond_pc = "returned" => cond_result.condition_result = PyFalse
       /\ on_condition_error = "skip_remaining" =>
             /\ cond_pc = "returned"
             /\ cond_result = EmptyResult(ErrorMessage)
             /\ executed = <<>>

C17_Witness ==
    /\ cond_form = "basic"
    /\ condition = Raises
    /\ on_condition_error = "continue"
    /\ if_false = <<"out1", "out2">>
    /\ cond_pc = "returned"
    /\ cond_result = ConditionalResult("out2", PyFalse, "if_false", ErrorMessage)

\* C18: in the multi-branch form, once evaluating the condition of branch
\* k has failed: stop raises TemplateError at branch k; continue goes on
\* to branch k + 1 (or leaves the loop after the last branch);
\* skip_remaining returns at once the result with output, condition_result
\* and executed_branch all None, no branch having run.
C18_BranchConditionError ==
    cond_form = "multi" =>
       \A k \in BranchIdx :
          WasEvaluated(k) /\ conditions[k].condition = Raises =>
             /\ on_condition_error = "stop" =>
                   /\ cond_pc = "raised"
                   /\ cond_error = [cls |-> "TemplateError", original |-> "condition"]
                   /\ Last(considered) = k
             /\ on_condition_error = "continue" =>
                   IF k < Len(conditions)
                   THEN \/ cond_pc = "loop" /\ cond_k = k + 1
                        \/ WasConsidered(k + 1)
                   ELSE cond_pc \in {"finish", "returned"}
             /\ on_condition_error = "skip_remaining" =>
                   /\ cond_pc = "returned"
                   /\ cond_result = EmptyResult(ErrorMessage)
                   /\ executed = <<>>
                   /\ Last(considered) = k

C18_Witness ==
    /\ cond_form = "multi"
    /\ on_condition_error = "continue"
    /\ Len(conditions) = 2
    /\ conditions[1].condition = Raises
    /\ ~conditions[1].default
    /\ considered = <<1, 2>>
    /\ cond_pc = "returned"
    /\ cond_result = ConditionalResult("out2", PyTrue, "b2", ErrorMessage)

\* ------------------------------------------------ properties: the filter
\* the items whose condition evaluates and coerces to true, in input order
RECURSIVE MatchingItems(_)
MatchingItems(list) ==
    IF list = <<>> THEN <<>>
    ELSE LET e == list[Len(list)]
             rest == MatchingItems(SubSeq(list, 1, Len(list) - 1))
         IN IF e.condition # Raises /\ coerce_filter_condition(e.condition)
            THEN Append(rest, e.item) ELSE rest

\* C19: under skip_item and under default_false the filter never raises,
\* an item whose condition fails is left out and the loop goes on; the
\* list returned is the one either policy computes for this input, namely
\* the items whose condition holds, in input order.
C19_FilterPoliciesAgree ==
    filter_on_condition_error \in {"skip_item", "default_false"} =>
       /\ filter_pc # "raised"
       /\ filter_pc = "returned" =>
             /\ filter_results = FilterLoop(filter_input, "skip_item", 1, <<>>).results
             /\ filter_results = FilterLoop(filter_input, "default_false", 1, <<>>).results
             /\ filter_results = MatchingItems(filter_input)

C19_Witness ==
    /\ filter_on_condition_error = "default_false"
    /\ filter_input = << [item |-> 1, condition |-> "True"],
                         [item |-> 2, condition |-> Raises],
                         [item |-> 2, condition |-> "on"] >>
    /\ filter_pc = "returned"
    /\ filter_results = <<1, 2>>

\* ------------------------------------------------ properties: the reduce
\* C20: reduce is a left fold: iteration k handles item k of the input and
\* sees as accumulator the output of the last nested step of iteration
\* k - 1 (initial_value for k = 1); the value returned is the output of the
\* last nested step of the last iteration (initial_value for an empty
\* input).
C20_ReduceIsLeftFold ==
    reduce_steps # <<>> =>
       /\ \A k \in 1..Len(reduce_trace) :
             /\ reduce_trace[k].item = reduce_input[k]
             /\ reduce_trace[k].acc =
                   IF k = 1 THEN initial_value ELSE reduce_trace[k - 1].last_output
       /\ reduce_pc = "returned" =>
             /\ Len(reduce_trace) = Len(reduce_input)
             /\ reduce_result = IF reduce_input = <<>> THEN initial_value
                                ELSE Last(reduce_trace).last_output

\* ---------------------------------------------- properties: the pipeline
\* the stages applied one after another from stage k to value
RECURSIVE ComposeStages(_, _, _)
ComposeStages(stages, k, value) ==
    IF k > Len(stages) THEN [raised |-> FALSE, output |-> value, failed_at |-> 0]
    ELSE LET r == run_stage(stages[k], value) IN
         IF r.raised THEN [raised |-> TRUE, output |-> NoValue, failed_at |-> k]
         ELSE ComposeStages(stages, k + 1, r.output)

\* C21: the stages are processed in declared order, the first on the
\* pipeline's input and each later one on the output of the stage before
\* it; the pipeline returns the output of the last stage, which is what
\* applying the stages one after another to the input gives; when a stage
\* fails the pipeline raises and no later stage has been processed.
C21_PipelineComposes ==
    LET whole == ComposeStages(pipeline, 1, ListValue(pipe_input)) IN
    /\ \A j \in 1..Len(stages_run) :
          /\ stages_run[j].idx = j
          /\ stages_run[j].input =
                IF j = 1 THEN ListValue(pipe_input)
                ELSE run_stage(pipeline[j - 1], stages_run[j - 1].input).output
    /\ pipe_pc = "returned" =>
          /\ ~whole.raised
          /\ pipe_result = whole.output
          /\ Len(stages_run) = Len(pipeline)
    /\ pipe_pc = "raised" =>
          /\ whole.raised
          /\ pipe_idx = whole.failed_at
          /\ Len(stages_run) <= whole.failed_at
          /\ pipe_result = NoValue

C21_Witness ==
    /\ pipe_pc = "returned"
    /\ pipe_input = <<1, 2, 1>>
    /\ Len(pipeline) = 2
    /\ pipeline[1].operation = "map"
    /\ pipeline[1].fail_item = 2
    /\ pipeline[1].policy = "skip"
    /\ pipeline[2].operation = "filter"
    /\ stages_run[2].input = ListValue(<<10, 0, 10>>)
    /\ pipe_result = ListValue(<<10, 10>>)

C23_SequentialAtMostOnce ==
    /\ \A j \in 1..Len(drv_started) : drv_started[j] = j
    /\ drv_pc = "exec" => Len(drv_started) = drv_i - 1
    /\ \A i \in drv_failed :
          Cardinality({j \in 1..Len(drv_started) : drv_started[j] = i}) = 1

\* a continue failure in the middle of three steps, all of them executed once
C23_Witness ==
    /\ drv_pc = "returned"
    /\ Len(wf_steps) = 3
    /\ wf_steps[2] = "continue"
    /\ drv_failed = {2}
    /\ drv_started = <<1, 2, 3>>

\* ------------------------------------------------- properties: the loader
HasDuplicate(l) == \E x, y \in DOMAIN l : x # y /\ l[x] = l[y]
TopLevelIds == [j \in DOMAIN steps_data |-> steps_data[j].id]

\* C24: loading fails whenever two steps of one step list share an id, the
\* list being the top-level list or a nested one (a map's or reduce's
\* steps, a conditional's if_true or if_false, a branch's steps).
C24_DuplicateIdsRejected ==
    (\/ HasDuplicate(TopLevelIds)
     \/ \E j \in DOMAIN steps_data : \E n \in DOMAIN steps_data[j].lists :
           HasDuplicate(steps_data[j].lists[n]))
    => load_pc # "loaded"

\* ------------------------------------ properties: ConditionalStep structure
CmDefaults == {j \in DOMAIN cm_data.conditions : cm_data.conditions[j].default}
CmSharedName ==
    \E j, k \in DOMAIN cm_data.conditions :
        j # k /\ cm_data.conditions[j].name = cm_data.conditions[k].name
CmBasic == cm_data.condition # PyNone
CmMulti == cm_data.has_conditions

\* C25: constructing a conditional step fails when it has two default
\* branches, when two branches share a name, when both condition and
\* conditions are given, or when neither is given; a conditional step that
\* exists has exactly one of the two structures.
C25_ExactlyOneStructure ==
    /\ cm_pc \notin {"fields", "post_init", "idle"} =>
          /\ Cardinality(CmDefaults) >= 2 => cm_pc = "raised"
          /\ CmSharedName => cm_pc = "raised"
          /\ (CmBasic /\ CmMulti) => cm_pc = "raised"
          /\ (~CmBasic /\ ~CmMulti) => cm_pc = "raised"
    /\ cm_pc = "constructed" => (CmBasic /\ ~CmMulti) \/ (~CmBasic /\ CmMulti)
    /\ cm_pc = "post_init" => Cardinality(CmDefaults) <= 1 /\ ~CmSharedName

\* both structures given with well-formed branches: the field validators
\* pass and model_post_init rejects the step
C25_Witness ==
    /\ cm_pc = "raised"
    /\ cm_error = "ValueError"
    /\ cm_data.condition = "c"
    /\ cm_data.if_true = "steps"
    /\ cm_data.has_conditions
    /\ Len(cm_data.conditions) = 2
    /\ Cardinality(CmDefaults) = 1
    /\ ~CmSharedName

\* ----------------------------------------------- properties: the observer
ReferenceRun ==
    RunWithoutObserver(obs_steps, obs_outcomes, 1, EmptyDict, EmptyDict, <<>>)

\* C26: notifications never affect control flow: whatever the observer
\* does, a callback that raises included, a run that ended has executed
\* the steps, recorded the outputs and ended with the result or error of
\* the run of the same workflow with no observer.
C26_ObserverIsAdvisory ==
    obs_pc \in {"returned", "raised"} =>
        /\ obs_pc = ReferenceRun.pc
        /\ obs_executed = ReferenceRun.executed
        /\ obs_outputs = ReferenceRun.step_outputs
        /\ obs_results = ReferenceRun.results
        /\ obs_error = ReferenceRun.error

\* ------------------------------------------ properties: the map's tasks
\* C27: when a bounded-parallel map returns or raises, every item task it
\* created has finished and has released the semaphore, also after an
\* item failure in stop mode.
C27_NoTaskOutlivesMap ==
    (MapEnded /\ UsesParallel(concurrency)) =>
        /\ DOMAIN task_state = DOMAIN input_list
        /\ \A i \in DOMAIN task_state : task_state[i] \in {"done", "failed"}
        /\ InFlight = {}
        /\ semaphore = max_parallel_of(concurrency)

\* stop mode, the first of three items failed while the gate admits two
C27_Witness ==
    /\ MapEnded
    /\ concurrency = <<2>>
    /\ on_item_failure = "stop"
    /\ Len(input_list) = 3
    /\ task_state = <<"failed", "done", "done">>
    /\ map_started = <<2, 1, 3>>

\* --------------------------------------- properties: the map's contexts
\* C28: during a map, sequential or bounded-parallel, every item runs on
\* its own clone of the context: the step_outputs an item finds are the
\* parent's, never another item's writes, no two items share a context,
\* and the parent's step_outputs and input_data stay as they were before
\* the map started.
C28_ItemsAreIsolated ==
    /\ ctx_heap[ParentRef] = ParentContext
    /\ \A i \in DOMAIN item_ctx :
          item_ctx[i].ref # NoRef =>
             /\ item_ctx[i].ref # ParentRef
             /\ item_ctx[i].found = ParentContext.step_outputs
             /\ \A j \in DOMAIN item_ctx : j # i => item_ctx[j].ref # item_ctx[i].ref
             /\ ctx_heap[item_ctx[i].ref].step_outputs \in
                   {ParentContext.step_outputs,
                    (NestedStepId :> ItemResult(input_list[i].item))}
             /\ ctx_heap[item_ctx[i].ref].input_data =
                   set_step_output(ParentContext.input_data, "item", input_list[i].item)

\* two items were in flight together and both wrote their nested output
C28_Witness ==
    /\ MapEnded
    /\ concurrency = <<2>>
    /\ Len(input_list) = 2
    /\ map_started = <<2, 1>>
    /\ input_list[1].item = 1 /\ input_list[2].item = 2
    /\ ctx_heap[item_ctx[1].ref].step_outputs = (NestedStepId :> 10)
    /\ ctx_heap[item_ctx[2].ref].step_outputs = (NestedStepId :> 20)
    /\ ctx_heap[ParentRef].step_outputs = (NestedStepId :> 5)

\* --------------------------------- properties: the conditional's context
\* C29: the nested steps of an executed branch run against a deep copy of
\* the context, so a conditional step leaves the step_outputs of the
\* enclosing context as they were: no output of a nested step appears
\* there.
C29_BranchRunsOnCopy ==
    cond_step_outputs = EnclosingOutputs

\* C30: an output the driver recorded for a top-level step keeps its
\* value for the rest of the run: no nested step of a later conditional,
\* whatever its id, changes or removes the entry.
C30_RecordedOutputsStable ==
    \A id \in DOMAIN EnclosingOutputs :
        /\ id \in DOMAIN cond_step_outputs
        /\ cond_step_outputs[id] = EnclosingOutputs[id]

\* -------------------------------------- properties: continuation messages
\* C31: round 0 sends the prompt alone; in every continuation round n > 0
\* the message history is exactly three turns: the original prompt, an
\* assistant turn with all content accumulated in rounds 0 to n-1, and the
\* fixed continue instruction; the history never has more than three turns.
C31_ThreeTurnHistory ==
    /\ Len(messages) <= 3
    /\ ai_pc = "call" =>
          IF continuation_attempt = 0
          THEN messages = << [role |-> "user", content |-> OriginalPrompt] >>
          ELSE messages = << [role |-> "user", content |-> OriginalPrompt],
                             [role |-> "assistant", content |-> accumulated_content],
                             [role |-> "user", content |-> ContinueInstruction] >>

\* ------------------------------------------- properties: termination
\* what is left of the two loops: the rounds not yet begun, each worth one
\* round head and max_retries + 1 attempts, the attempts left in the
\* current round, and the step's bookkeeping after complete() returned
AIMeasure ==
    (IF ai_pc \in {"round", "call"}
     THEN (max_auto_retry_attempts + 1 - continuation_attempt) * (max_retries + 3)
          + (IF ai_pc = "round" THEN max_retries + 2 ELSE max_retries + 1 - attempt)
     ELSE 0)
    + (IF ai_step_pc = "complete" THEN 1 ELSE 0)

AIBudget ==
    /\ Len(ai_rounds) <= max_auto_retry_attempts + 1
    /\ ai_calls <= (max_auto_retry_attempts + 1) * (max_retries + 1)
    /\ round_calls <= max_retries + 1
    /\ (max_auto_retry_attempts = 0 /\ ai_pc = "returned") => Len(ai_rounds) = 1
    /\ AIMeasure >= 0

\* C32: every model invocation terminates: each step of the two loops
\* uses up part of a finite budget; there are at most
\* max_auto_retry_attempts + 1 successful rounds (exactly one when
\* max_auto_retry_attempts is 0), at most max_retries + 1 attempts in each
\* round and so at most (max_auto_retry_attempts + 1) * (max_retries + 1)
\* provider attempts in total.
C32_InvocationTerminates ==
    /\ []AIBudget
    /\ [][AIMeasure' < AIMeasure]_vars

\* every round used its whole transport budget and all rounds were used
C32_Witness ==
    /\ ai_pc = "returned"
    /\ max_auto_retry_attempts = 2
    /\ max_retries = 1
    /\ Len(ai_rounds) = 3
    /\ ai_calls = 6
    /\ round_calls = 2

\* ------------------------------ properties: usage inside a map or a reduce
\* C33: the usage recorded by the model-call steps nested in a map item or
\* in a reduce iteration goes to that iteration's clone of the context only:
\* the usage accumulator of the context the map or the reduce was called
\* with is the one it had before, at every point of the step and after it.
C33_UsageStaysOnClone ==
    /\ ctx_heap[ParentRef].usage = ParentContext.usage
    /\ reduce_heap[ParentRef].usage = ParentContext.usage
    /\ \A i \in DOMAIN item_ctx :
          item_ctx[i].ref # NoRef =>
             ctx_heap[item_ctx[i].ref].usage \in
                {ParentContext.usage, add_step_usage(ParentContext.usage)}
    /\ ReduceRef \in DOMAIN reduce_heap =>
          reduce_heap[ReduceRef].usage <= ParentContext.usage + Len(reduce_steps)

\* a reduce over two items returned after its last iteration recorded the
\* calls of two nested steps on reduce_context
C33_Witness ==
    /\ reduce_pc = "returned"
    /\ Len(reduce_input) = 2
    /\ Len(reduce_steps) = 2
    /\ reduce_heap[ReduceRef].usage = ParentContext.usage + 2
    /\ reduce_heap[ParentRef].usage = ParentContext.usage

\* ----------------------------------- properties: coercion of conditions
\* C34: a rendered condition is coerced to the same boolean by the
\* conditional evaluator as by the collection filter, string or not: a basic
\* conditional's condition_result is the filter's boolean for the same
\* rendered value, and a branch of a multi-branch conditional whose
\* condition was rendered is executed exactly if the filter would keep an
\* item on that rendered value.
C34_SameCoercionAsFilter ==
    /\ (cond_form = "basic" /\ cond_pc = "branch" /\ condition # Raises) =>
          ((condition_result = PyTrue) <=> coerce_filter_condition(condition))
    /\ cond_form = "multi" =>
          \A j \in DOMAIN evaluated :
             LET branch == conditions[evaluated[j]] IN
             branch.condition # Raises =>
                ((\E e \in DOMAIN executed :
                      executed[e] = BranchNames[evaluated[j]])
                 <=> coerce_filter_condition(branch.condition))

\* --------------------------- properties: the output of a validated call
\* C35: when a validation attempt succeeds, the step returns the
\* validator's validated output whenever the validator produced one,
\* whatever its value, and the raw response text only when it produced none.
C35_ValidatedOutputReturned ==
    val_pc = "returned" =>
       LET validation_result == val_results[Len(val_results)] IN
       val_return = IF validation_result.validated_output # PyNone
                    THEN validation_result.validated_output
                    ELSE validation_result.original_output

\* ------------------------------ properties: branches of a multi-branch
\* the branches whose nested steps were started: those handed to
\* _execute_step_list with at least one step
StartedBranches ==
    {k \in DOMAIN conditions :
        /\ conditions[k].steps # <<>>
        /\ \E e \in DOMAIN executed : executed[e] = BranchNames[k]}

\* C36: in a multi-branch conditional, under every on_condition_error and
\* on_error policy and whatever fails, the nested steps of at most one
\* branch are started.
C36_AtMostOneBranchStarted ==
    cond_form = "multi" => Cardinality(StartedBranches) <= 1

\* --------------------------- properties: the length of a sequential map
\* C37: whenever a sequential map returns normally, its output list has
\* the length of its input list, for every on_item_failure value (skip,
\* stop and retry) and every set of failing items.
C37_SequentialKeepsLength ==
    (~UsesParallel(concurrency) /\ map_pc = "returned") =>
        Len(map_results) = Len(input_list)

\* ------------------------------------- properties: the usage summary
\* the sum of one field over the entries of step_usage
RECURSIVE SumOfEntries(_, _, _)
SumOfEntries(entries, ids, field) ==
    IF ids = {} THEN 0
    ELSE LET i == CHOOSE x \in ids : TRUE IN
         entries[i][field] + SumOfEntries(entries, ids \ {i}, field)

\* C38: after any sequence of add_step_usage calls on one context, each
\* total of the UsageSummary (prompt tokens, completion tokens, total
\* tokens, cost) is the sum of that field over the entries of step_usage,
\* also when one step id has recorded usage several times.
C38_TotalsAreSumOfEntries ==
    LET entries == usage_summary.step_usage
        ids == DOMAIN entries
    IN
    /\ usage_summary.total_prompt_tokens = SumOfEntries(entries, ids, "prompt_tokens")
    /\ usage_summary.total_completion_tokens =
          SumOfEntries(entries, ids, "completion_tokens")
    /\ usage_summary.total_tokens = SumOfEntries(entries, ids, "total_tokens")
    /\ usage_summary.total_cost_usd = SumOfEntries(entries, ids, "cost_usd")

\* ------------------------- properties: a transport failure mid-continuation
\* C39: when the transport retry budget runs out in a continuation round
\* n > 0, the invocation ends with an AIProviderError and no response: the
\* content accumulated in rounds 0 to n-1 is not returned.  A response is
\* held only by an invocation that returned, and then its last round's
\* provider call succeeded.
C39_TransportFailureDropsPartial ==
    /\ (ai_pc = "raised" /\ continuation_attempt > 0) =>
          /\ ai_error.cls = "AIProviderError"
          /\ ai_response = NoResponse
          /\ Len(ai_rounds) = continuation_attempt
          /\ accumulated_content = ConcatContents(ai_rounds)
          /\ \A r \in DOMAIN ai_rounds : ai_rounds[r].finish_reason \in TruncationReasons
    /\ ai_response # NoResponse =>
          /\ ai_pc = "returned"
          /\ ai_error = NoAIError
          /\ Len(ai_rounds) = continuation_attempt + 1

\* two truncated rounds delivered content, then every call of round 2 failed
C39_Witness ==
    /\ ai_pc = "raised"
    /\ continuation_attempt = 2
    /\ max_retries = 1
    /\ round_calls = 2
    /\ accumulated_content = <<"a", "b">>
    /\ ai_response = NoResponse

\* ------------------------------- properties: the order of notifications
\* the step-start notifications made so far
ObsStepEvents == SelectSeq(obs_events, LAMBDA e : e[1] = "workflow_step")
ObsEmitted(event) == \E k \in DOMAIN obs_events : obs_events[k][1] = event
ObsEnded == obs_pc \in {"returned", "raised"}

\* C40: in every run with an observer, run-start is the first notification,
\* the step-start notifications carry 1, 2, ... in declared order, each
\* made before its step executes, and run-complete is emitted exactly when
\* the run returns normally, never when it ends by raising.
C40_NotificationOrder ==
    observer.set =>
       /\ obs_events # <<>> => obs_events[1] = <<"workflow_start", Len(obs_steps)>>
       /\ \A k \in DOMAIN obs_events :
             obs_events[k][1] = "workflow_start" => k = 1
       /\ \A k \in DOMAIN ObsStepEvents : ObsStepEvents[k][2] = k
       /\ \A k \in DOMAIN obs_executed :
             obs_executed[k] = k /\ k \in DOMAIN ObsStepEvents
       /\ Len(ObsStepEvents) - Len(obs_executed) \in {0, 1}
       /\ ObsEmitted("workflow_complete") =>
             /\ Last(obs_events) = <<"workflow_complete", 0>>
             /\ ObsEnded
       /\ ObsEnded =>
             (ObsEmitted("workflow_complete") <=> obs_pc = "returned")

====
